---- MODULE Spec2Model ----
(***************************************************************************)
(* Simulated-annealing university timetabling (src/src/index.ts).          *)
(*                                                                         *)
(* Representation choices:                                                 *)
(*  - an "HH:MM" string is the pair <<hour, minute>>; timeToMinutes and    *)
(*    minutesToTime convert between the pair and minutes since midnight;   *)
(*  - a soft score in [0,1] is an integer in 0..ScoreOne (fixed point),    *)
(*    so a fitness value is the program's fitness multiplied by ScoreOne;  *)
(*  - a violation record keeps classId, constraintType and severity (the   *)
(*    free-text reason and the details object are left out);               *)
(*  - Math.random() is a nondeterministic choice.                          *)
(***************************************************************************)
EXTENDS Integers, Sequences, FiniteSets, TLC

VARIABLES
    rooms,            \* Room[] given to the constructor
    lecturers,        \* Lecturer map (code -> record) built by ConstraintChecker
    classes,          \* ClassRequirement[] given to the constructor
    TIME_SLOTS_PAGI,  \* morning slot sequence
    TIME_SLOTS_SORE,  \* evening slot sequence
    config,           \* temperature schedule of the solver
    pc,               \* position inside solve()
    curSchedule,      \* currentSolution.schedule
    curFitness,       \* currentSolution.fitness
    bestSchedule,     \* bestSolution.schedule
    bestFitness,      \* bestSolution.fitness
    newSchedule,      \* newSolution.schedule (inside one iteration)
    newFitness,       \* newSolution.fitness
    acceptProb,       \* acceptProb local of solve()
    rnd,              \* the Math.random() draw compared with acceptProb
    temperature,
    iteration,
    violations,       \* ConstraintChecker.violations
    report,           \* bestSolution.violationReport
    noImprove,        \* iterations since the last new best (reheating)
    reheats,          \* reheats done so far (reheating)
    call,             \* the last call of a helper function: name, arguments, result
    DEFAULT_ALGORITHM_CONFIG  \* the exported defaults object of config.ts

inputVars == <<rooms, lecturers, classes, TIME_SLOTS_PAGI, TIME_SLOTS_SORE, config>>
solVars == <<curSchedule, curFitness, bestSchedule, bestFitness>>
iterVars == <<newSchedule, newFitness, acceptProb, rnd>>
reheatVars == <<noImprove, reheats>>
callVars == <<call, DEFAULT_ALGORITHM_CONFIG>>
vars == <<inputVars, pc, solVars, iterVars, temperature, iteration,
          violations, report, reheatVars, callVars>>

----------------------------------------------------------------------------
(* Bounds of the model *)

\* largest maxIterations of a configuration
MaxIterations == 2

\* Math.random() takes the values 0/RndLevels .. (RndLevels-1)/RndLevels
RndLevels == 2

\* largest number of credit units of a class in a call of a helper function
MaxSks == 4

----------------------------------------------------------------------------
(* Constants of the program *)

\* the soft score 1.0 in fixed point
ScoreOne == 180

DAYS == <<"Monday", "Tuesday", "Wednesday", "Thursday", "Friday", "Saturday">>

PRAYER_TIMES ==
    [DZUHUR  |-> [start |-> 11 * 60 + 40, end |-> 12 * 60 + 30, duration |-> 50],
     ASHAR   |-> [start |-> 15 * 60,      end |-> 15 * 60 + 30, duration |-> 30],
     MAGHRIB |-> [start |-> 18 * 60,      end |-> 18 * 60 + 30, duration |-> 30]]

LAB_ROOMS == {"CM-206", "CM-207", "CM-LabVirtual", "CM-Lab3", "G5-Lab1",
              "G5-Lab2", "G5-LabAudioVisual"}

NON_LAB_ROOMS ==
    {"B2-R1", "B3-R1", "B3-R2", "B3R3", "CM-101", "CM-102", "CM-103",
     "CM-201", "CM-202", "CM-203", "CM-204", "CM-205", "CM-208",
     "G2-R2", "G2-R3", "G2-R4", "G2-R5", "G2-R6", "G2-R7",
     "G3-R1", "G3-R2", "G3-R3", "G3-R4",
     "G4-R1", "G4-R2", "G4-R3", "G4-R4"}

hardConstraintWeight == 10000

softConstraintWeights ==
    [preferredTime |-> 10, preferredRoom |-> 5, transitTime |-> 20,
     compactness |-> 8, prayerTimeOverlap |-> 15, eveningClassPriority |-> 12,
     labRequirement |-> 10]

----------------------------------------------------------------------------
(* String operations on the strings the inputs use *)

\* String.prototype.toLowerCase
toLowerCase(s) ==
    CASE s = "Sore" -> "sore"
      [] s = "SORE" -> "sore"
      [] s = "Pagi" -> "pagi"
      [] s = "PAGI" -> "pagi"
      [] s = "Siang" -> "siang"
      [] s = "Malam" -> "malam"
      [] s = "Yes" -> "yes"
      [] s = "YES" -> "yes"
      [] s = "No" -> "no"
      [] s = "Lab" -> "lab"
      [] s = "Laboratorium" -> "laboratorium"
      [] s = "Kelas" -> "kelas"
      [] s = "Magister Manajemen" -> "magister manajemen"
      [] s = "S2 MAGISTER MANAJEMEN" -> "s2 magister manajemen"
      [] s = "Informatika" -> "informatika"
      [] s = "Manajemen" -> "manajemen"
      [] s = "Unknown" -> "unknown"
      [] OTHER -> s

\* String.prototype.trim
trim(s) ==
    CASE s = " Monday" -> "Monday"
      [] s = "Monday " -> "Monday"
      [] s = " " -> ""
      [] s = " CM-101" -> "CM-101"
      [] s = "CM-102 " -> "CM-102"
      [] OTHER -> s

\* s.includes('lab') for an already lower-cased room type
includesLab(s) == s \in {"lab", "laboratorium"}

\* s.includes('magister manajemen') for an already lower-cased program name
includesMagisterManajemen(s) == s \in {"magister manajemen", "s2 magister manajemen"}

\* Array.prototype.includes
includes(seq, x) == \E i \in 1..Len(seq) : seq[i] = x

----------------------------------------------------------------------------
(* Helper functions *)

\* a time of day "HH:MM" is the pair <<hour, minute>> of its two fields
timeToMinutes(time) == time[1] * 60 + time[2]

\* variant: the hour is rounded, not floored
minutesToTimeRounded(minutes) == <<(minutes + 30) \div 60, minutes % 60>>

minutesToTime(minutes) == <<minutes \div 60, minutes % 60>>

\* parseInt(startTime.split(':')[0])
startHour(time) == time[1]

\* variant: only the first prayer window hit is counted
getPrayerTimeOverlapFirstOnly(startTime, sks, day) ==
    LET startMinutes == timeToMinutes(startTime)
        endMinutes == startMinutes + sks * 50 + (sks - 1) * 10
        hit(p) == startMinutes < p.end /\ endMinutes > p.start
    IN  IF hit(PRAYER_TIMES.DZUHUR) THEN PRAYER_TIMES.DZUHUR.duration
        ELSE IF hit(PRAYER_TIMES.ASHAR) THEN PRAYER_TIMES.ASHAR.duration
        ELSE IF hit(PRAYER_TIMES.MAGHRIB) THEN PRAYER_TIMES.MAGHRIB.duration
        ELSE 0

getPrayerTimeOverlap(startTime, sks, day) ==
    LET startMinutes == timeToMinutes(startTime)
        classMinutes == sks * 50 + (sks - 1) * 10
        endMinutes == startMinutes + classMinutes
        hit(p) == startMinutes < p.end /\ endMinutes > p.start
    IN  (IF hit(PRAYER_TIMES.DZUHUR) THEN PRAYER_TIMES.DZUHUR.duration ELSE 0)
      + (IF hit(PRAYER_TIMES.ASHAR) THEN PRAYER_TIMES.ASHAR.duration ELSE 0)
      + (IF hit(PRAYER_TIMES.MAGHRIB) THEN PRAYER_TIMES.MAGHRIB.duration ELSE 0)

calculateEndTime(startTime, sks, day) ==
    LET startMinutes == timeToMinutes(startTime)
        classMinutes == sks * 50 + (sks - 1) * 10
        prayerTimeAdded == getPrayerTimeOverlap(startTime, sks, day)
        totalMinutes == classMinutes + prayerTimeAdded
        endMinutes == startMinutes + totalMinutes
    IN  [endTime |-> minutesToTime(endMinutes), prayerTimeAdded |-> prayerTimeAdded]

\* variant: hour 13 is not excluded
isValidFridayStartTimeUntilNoon(startTime) ==
    LET hour == startHour(startTime)
    IN  ~(hour = 11 \/ hour = 12)

isValidFridayStartTime(startTime) ==
    LET hour == startHour(startTime)
    IN  ~(hour = 11 \/ hour = 12 \/ hour = 13)

isStartingDuringPrayerTime(startTime) ==
    LET startMinutes == timeToMinutes(startTime)
        in(p) == startMinutes >= p.start /\ startMinutes < p.end
    IN  in(PRAYER_TIMES.DZUHUR) \/ in(PRAYER_TIMES.ASHAR) \/ in(PRAYER_TIMES.MAGHRIB)

Max2(a, b) == IF a >= b THEN a ELSE b
Min2(a, b) == IF a <= b THEN a ELSE b

----------------------------------------------------------------------------
(* ConstraintChecker *)

\* this.rooms.get(code): a Map built from the array keeps the last room of a code
roomKnown(code) == \E i \in 1..Len(rooms) : rooms[i].Code = code
roomGet(code) ==
    rooms[CHOOSE i \in 1..Len(rooms) :
            /\ rooms[i].Code = code
            /\ \A j \in (i+1)..Len(rooms) : rooms[j].Code # code]

lecturerKnown(code) == code \in DOMAIN lecturers

\* the record addViolation pushes
Violation(entry, constraintType, severity) ==
    [classId |-> entry.classId, constraintType |-> constraintType,
     severity |-> severity]

Pass == [ok |-> TRUE, log |-> <<>>]
Fail(entry, constraintType) ==
    [ok |-> FALSE, log |-> <<Violation(entry, constraintType, "hard")>>]

\* a variant of isTimeOverlap that tests one side of the intersection only
isTimeOverlapOneSided(entry1, entry2) ==
    /\ entry1.timeSlot.day = entry2.timeSlot.day
    /\ timeToMinutes(entry1.timeSlot.startTime)
         < timeToMinutes(calculateEndTime(entry2.timeSlot.startTime, entry2.sks,
                                          entry2.timeSlot.day).endTime)

isTimeOverlap(entry1, entry2) ==
    IF entry1.timeSlot.day # entry2.timeSlot.day THEN FALSE
    ELSE LET calc1 == calculateEndTime(entry1.timeSlot.startTime, entry1.sks,
                                       entry1.timeSlot.day)
             calc2 == calculateEndTime(entry2.timeSlot.startTime, entry2.sks,
                                       entry2.timeSlot.day)
             start1 == timeToMinutes(entry1.timeSlot.startTime)
             end1 == timeToMinutes(calc1.endTime)
             start2 == timeToMinutes(entry2.timeSlot.startTime)
             end2 == timeToMinutes(calc2.endTime)
         IN  start1 < end2 /\ start2 < end1

\* HC1: the scan over the earlier entries, from position k on
RECURSIVE lecturerConflictFrom(_, _, _)
lecturerConflictFrom(schedule, entry, k) ==
    IF k > Len(schedule) THEN Pass
    ELSE IF /\ isTimeOverlap(schedule[k], entry)
            /\ \E j \in 1..Len(entry.lecturers) :
                   includes(schedule[k].lecturers, entry.lecturers[j])
         THEN Fail(entry, "HC1: Lecturer Conflict")
         ELSE lecturerConflictFrom(schedule, entry, k + 1)

\* a variant of checkNoLecturerConflict without the early return: one record for
\* every conflicting earlier entry
checkNoLecturerConflictNoReturn(schedule, entry) ==
    LET hits == SelectSeq(schedule,
                    LAMBDA existing :
                        /\ isTimeOverlap(existing, entry)
                        /\ \E j \in 1..Len(entry.lecturers) :
                               includes(existing.lecturers, entry.lecturers[j]))
    IN  [ok |-> Len(hits) = 0,
         log |-> [k \in 1..Len(hits) |->
                     Violation(entry, "HC1: Lecturer Conflict", "hard")]]

\* a variant of checkNoLecturerConflict that compares the first lecturers only
checkNoLecturerConflictFirstOnly(schedule, entry) ==
    IF \E k \in 1..Len(schedule) :
           /\ isTimeOverlap(schedule[k], entry)
           /\ schedule[k].lecturers[1] = entry.lecturers[1]
    THEN Fail(entry, "HC1: Lecturer Conflict")
    ELSE Pass

checkNoLecturerConflict(schedule, entry) == lecturerConflictFrom(schedule, entry, 1)

\* HC2
checkNoRoomConflict(schedule, entry) ==
    IF \E k \in 1..Len(schedule) :
           schedule[k].room = entry.room /\ isTimeOverlap(schedule[k], entry)
    THEN Fail(entry, "HC2: Room Conflict")
    ELSE Pass

\* HC3
checkRoomCapacity(entry) ==
    IF ~roomKnown(entry.room) THEN Fail(entry, "HC3: Room Capacity")
    ELSE IF roomGet(entry.room).Capacity < entry.participants
         THEN Fail(entry, "HC3: Room Capacity")
         ELSE Pass

\* HC4, now a soft score
checkLabRequirement(entry) ==
    IF ~entry.needsLab THEN ScoreOne
    ELSE IF ~roomKnown(entry.room) THEN 0
    ELSE LET room == roomGet(entry.room)
         IN  IF includesLab(toLowerCase(room.Type)) \/ room.Code \in LAB_ROOMS
             THEN ScoreOne
             ELSE ScoreOne \div 2

\* HC5
checkNoClassConflictSameProdi(schedule, entry) ==
    IF \E k \in 1..Len(schedule) :
           schedule[k].prodi = entry.prodi /\ isTimeOverlap(schedule[k], entry)
    THEN Fail(entry, "HC5: Prodi Conflict")
    ELSE Pass

\* HC6
checkResearchDay(entry) ==
    IF \E j \in 1..Len(entry.lecturers) :
           LET code == entry.lecturers[j]
           IN  /\ lecturerKnown(code)
               /\ lecturers[code].Research_Day # ""
               /\ trim(lecturers[code].Research_Day) # ""
               /\ entry.timeSlot.day = trim(lecturers[code].Research_Day)
    THEN Fail(entry, "HC6: Research Day")
    ELSE Pass

\* HC7: the credit units of the earlier entries of one lecturer on one day
RECURSIVE periodsBefore(_, _, _, _)
periodsBefore(schedule, day, lecturerCode, k) ==
    IF k = 0 THEN 0
    ELSE periodsBefore(schedule, day, lecturerCode, k - 1)
         + (IF /\ schedule[k].timeSlot.day = day
               /\ includes(schedule[k].lecturers, lecturerCode)
            THEN schedule[k].sks ELSE 0)

checkMaxDailyPeriods(schedule, entry) ==
    IF \E j \in 1..Len(entry.lecturers) :
           LET code == entry.lecturers[j]
           IN  /\ lecturerKnown(code)
               /\ lecturers[code].Max_Daily_Periods # 0
               /\ periodsBefore(schedule, entry.timeSlot.day, code, Len(schedule))
                    + entry.sks > lecturers[code].Max_Daily_Periods
    THEN Fail(entry, "HC7: Max Daily Periods")
    ELSE Pass

\* HC8
checkClassTypeTime(entry) ==
    LET hour == startHour(entry.timeSlot.startTime)
    IN  IF entry.classType = "sore"
        THEN (IF hour < 15 THEN Fail(entry, "HC8: Class Type Time") ELSE Pass)
        ELSE (IF hour >= 18 THEN Fail(entry, "HC8: Class Type Time") ELSE Pass)

\* HC9
checkSaturdayRestriction(entry) ==
    IF entry.timeSlot.day # "Saturday" THEN Pass
    ELSE IF ~includesMagisterManajemen(toLowerCase(entry.prodi))
         THEN Fail(entry, "HC9: Saturday Restriction")
         ELSE Pass

\* HC10
checkFridayTimeRestriction(entry) ==
    IF entry.timeSlot.day # "Friday" THEN Pass
    ELSE IF ~isValidFridayStartTime(entry.timeSlot.startTime)
         THEN Fail(entry, "HC10: Friday Time Restriction")
         ELSE Pass

\* HC11
checkNotStartingDuringPrayerTime(entry) ==
    IF isStartingDuringPrayerTime(entry.timeSlot.startTime)
    THEN Fail(entry, "HC11: Prayer Time Start")
    ELSE Pass

----------------------------------------------------------------------------
(* Soft constraints: scores in 0..ScoreOne *)

\* the lecturers of the entry (positions in entry.lecturers) that state a field
stating(entry, has(_)) ==
    {j \in 1..Len(entry.lecturers) :
        lecturerKnown(entry.lecturers[j]) /\ has(lecturers[entry.lecturers[j]])}

\* SC1
checkPreferredTime(entry) ==
    LET hasPref(l) == l.Prefered_Time # ""
        counted == stating(entry, hasPref)
        hour == startHour(entry.timeSlot.startTime)
        inBand(preferredTime) ==
            \/ preferredTime = "pagi" /\ hour >= 7 /\ hour < 12
            \/ preferredTime = "siang" /\ hour >= 12 /\ hour < 15
            \/ preferredTime = "sore" /\ hour >= 15 /\ hour < 18
            \/ preferredTime = "malam" /\ hour >= 18
        totalScore == Cardinality({j \in counted :
            inBand(toLowerCase(lecturers[entry.lecturers[j]].Prefered_Time))})
        count == Cardinality(counted)
    IN  IF count > 0 THEN (totalScore * ScoreOne) \div count ELSE ScoreOne

\* SC2
checkPreferredRoom(entry) ==
    LET hasPref(l) == l.Prefered_Room # ""
        counted == stating(entry, hasPref)
        totalScore == Cardinality({j \in counted :
            lecturers[entry.lecturers[j]].Prefered_Room = entry.room})
        count == Cardinality(counted)
    IN  IF count > 0 THEN (totalScore * ScoreOne) \div count ELSE ScoreOne

MinOf(S) == CHOOSE x \in S : \A y \in S : x <= y

\* variant: only the classes that end before the entry starts are compared
checkTransitTimeEarlierOnly(schedule, entry) ==
    LET hasTransit(l) == l.Transit_Time # 0
        currentStartMins == timeToMinutes(entry.timeSlot.startTime)
        prevEndMins(existing) ==
            timeToMinutes(calculateEndTime(existing.timeSlot.startTime, existing.sks,
                                           existing.timeSlot.day).endTime)
        scores ==
            {((currentStartMins - prevEndMins(schedule[k])) * ScoreOne)
                \div lecturers[entry.lecturers[j]].Transit_Time :
                <<j, k>> \in {<<j, k>> \in stating(entry, hasTransit) \X (1..Len(schedule)) :
                    /\ schedule[k].timeSlot.day = entry.timeSlot.day
                    /\ includes(schedule[k].lecturers, entry.lecturers[j])
                    /\ currentStartMins - prevEndMins(schedule[k]) >= 0
                    /\ currentStartMins - prevEndMins(schedule[k])
                         < lecturers[entry.lecturers[j]].Transit_Time}}
    IN  MinOf(scores \cup {ScoreOne})

\* SC3
checkTransitTime(schedule, entry) ==
    LET hasTransit(l) == l.Transit_Time # 0
        currentStartMins == timeToMinutes(entry.timeSlot.startTime)
        prevEndMins(existing) ==
            timeToMinutes(calculateEndTime(existing.timeSlot.startTime, existing.sks,
                                           existing.timeSlot.day).endTime)
        scores ==
            {Max2(0, ((currentStartMins - prevEndMins(schedule[k])) * ScoreOne)
                        \div lecturers[entry.lecturers[j]].Transit_Time) :
                <<j, k>> \in {<<j, k>> \in stating(entry, hasTransit) \X (1..Len(schedule)) :
                    /\ schedule[k].timeSlot.day = entry.timeSlot.day
                    /\ includes(schedule[k].lecturers, entry.lecturers[j])
                    /\ currentStartMins - prevEndMins(schedule[k])
                         < lecturers[entry.lecturers[j]].Transit_Time}}
    IN  MinOf(scores \cup {ScoreOne})

\* variant: the score for a large gap is not cut off at 0
checkCompactnessUnclamped(schedule, entry) ==
    LET sameDayClasses == {k \in 1..Len(schedule) :
                              schedule[k].timeSlot.day = entry.timeSlot.day}
        currentStartMins == timeToMinutes(entry.timeSlot.startTime)
        currentEndMins == currentStartMins + entry.sks * 60 - 10
                          + getPrayerTimeOverlap(entry.timeSlot.startTime, entry.sks,
                                                 entry.timeSlot.day)
        existingStartMins(k) == timeToMinutes(schedule[k].timeSlot.startTime)
        existingEndMins(k) == existingStartMins(k) + schedule[k].sks * 60 - 10
                              + getPrayerTimeOverlap(schedule[k].timeSlot.startTime,
                                                     schedule[k].sks,
                                                     schedule[k].timeSlot.day)
        gaps == {currentStartMins - existingEndMins(k) :
                    k \in {k \in sameDayClasses : existingEndMins(k) <= currentStartMins}}
                \cup
                {existingStartMins(k) - currentEndMins :
                    k \in {k \in sameDayClasses : currentEndMins <= existingStartMins(k)}}
    IN  IF gaps = {} THEN ScoreOne
        ELSE IF MinOf(gaps) <= 60 THEN ScoreOne
        ELSE ScoreOne - (MinOf(gaps) - 60)

\* SC4
checkCompactness(schedule, entry) ==
    LET sameDayClasses == {k \in 1..Len(schedule) :
                              schedule[k].timeSlot.day = entry.timeSlot.day}
        currentStartMins == timeToMinutes(entry.timeSlot.startTime)
        currentEndMins ==
            timeToMinutes(calculateEndTime(entry.timeSlot.startTime, entry.sks,
                                           entry.timeSlot.day).endTime)
        existingEndMins(k) ==
            timeToMinutes(calculateEndTime(schedule[k].timeSlot.startTime,
                                           schedule[k].sks,
                                           schedule[k].timeSlot.day).endTime)
        existingStartMins(k) == timeToMinutes(schedule[k].timeSlot.startTime)
        gaps == {currentStartMins - existingEndMins(k) :
                    k \in {k \in sameDayClasses : existingEndMins(k) <= currentStartMins}}
                \cup
                {existingStartMins(k) - currentEndMins :
                    k \in {k \in sameDayClasses : currentEndMins <= existingStartMins(k)}}
    IN  IF sameDayClasses = {} THEN ScoreOne
        ELSE IF gaps = {} THEN ScoreOne
        ELSE LET minGap == MinOf(gaps)
             IN  IF minGap <= 60 THEN ScoreOne
                 ELSE Max2(0, ScoreOne - ((minGap - 60) * ScoreOne) \div 180)

\* variant: SC5 without the call of addViolation
checkPrayerTimeOverlapSilent(entry) ==
    LET prayerTime == getPrayerTimeOverlap(entry.timeSlot.startTime, entry.sks,
                                           entry.timeSlot.day)
    IN  [score |-> IF prayerTime = 0 THEN ScoreOne
                   ELSE Max2(ScoreOne \div 2, ScoreOne - (prayerTime * ScoreOne) \div 100),
         log |-> <<>>]

\* SC5: the score and the soft violation it records
checkPrayerTimeOverlap(entry) ==
    LET prayerTime == getPrayerTimeOverlap(entry.timeSlot.startTime, entry.sks,
                                           entry.timeSlot.day)
    IN  IF prayerTime = 0 THEN [score |-> ScoreOne, log |-> <<>>]
        ELSE [score |-> Max2(ScoreOne \div 2, ScoreOne - (prayerTime * ScoreOne) \div 100),
              log |-> <<Violation(entry, "SC5: Prayer Time Overlap", "soft")>>]

\* SC6
checkEveningClassPriority(entry) ==
    LET hour == startHour(entry.timeSlot.startTime)
    IN  IF entry.classType # "sore" THEN ScoreOne
        ELSE IF hour = 18 THEN ScoreOne
        ELSE IF hour >= 15 /\ hour < 18 THEN (7 * ScoreOne) \div 10
        ELSE ScoreOne \div 2

----------------------------------------------------------------------------
(* SimulatedAnnealing.calculateFitness *)

\* the ten hard checks of one entry, in the order of the loop body
hardChecks(scheduleBeforeEntry, entry) ==
    <<checkNoLecturerConflict(scheduleBeforeEntry, entry),
      checkNoRoomConflict(scheduleBeforeEntry, entry),
      checkRoomCapacity(entry),
      checkNoClassConflictSameProdi(scheduleBeforeEntry, entry),
      checkResearchDay(entry),
      checkMaxDailyPeriods(scheduleBeforeEntry, entry),
      checkClassTypeTime(entry),
      checkSaturdayRestriction(entry),
      checkFridayTimeRestriction(entry),
      checkNotStartingDuringPrayerTime(entry)>>

\* the soft penalty of one entry
softPenaltyOf(scheduleBeforeEntry, entry) ==
      (ScoreOne - checkPreferredTime(entry)) * softConstraintWeights.preferredTime
    + (ScoreOne - checkPreferredRoom(entry)) * softConstraintWeights.preferredRoom
    + (ScoreOne - checkTransitTime(scheduleBeforeEntry, entry))
         * softConstraintWeights.transitTime
    + (ScoreOne - checkCompactness(scheduleBeforeEntry, entry))
         * softConstraintWeights.compactness
    + (ScoreOne - checkLabRequirement(entry)) * softConstraintWeights.labRequirement
    + (ScoreOne - checkPrayerTimeOverlap(entry).score)
         * softConstraintWeights.prayerTimeOverlap
    + (ScoreOne - checkEveningClassPriority(entry))
         * softConstraintWeights.eveningClassPriority

RECURSIVE concatLogs(_, _)
concatLogs(results, k) ==
    IF k = 0 THEN <<>> ELSE concatLogs(results, k - 1) \o results[k].log

\* one pass of the loop body: the counters and the log after it
fitnessStep(acc, hard, softPenalty, prayer) ==
    [hardViolations |->
         acc.hardViolations + Cardinality({k \in 1..Len(hard) : ~hard[k].ok}),
     softPenalty |-> acc.softPenalty + softPenalty,
     log |-> acc.log \o concatLogs(hard, Len(hard)) \o prayer.log]

\* variant: the log left by the evaluation before is kept
resetViolationsKept(log) == log

\* this.violations = []
resetViolations(log) == <<>>

\* the loop of calculateFitness over entries 1..i: counters and the violation
\* log, which starts from the checker's log (violations) after resetViolations
RECURSIVE fitnessLoop(_, _)
fitnessLoop(schedule, i) ==
    IF i = 0
    THEN [hardViolations |-> 0, softPenalty |-> 0, log |-> resetViolations(violations)]
    ELSE fitnessStep(fitnessLoop(schedule, i - 1),
                     hardChecks(SubSeq(schedule, 1, i - 1), schedule[i]),
                     softPenaltyOf(SubSeq(schedule, 1, i - 1), schedule[i]),
                     checkPrayerTimeOverlap(schedule[i]))

\* the value calculateFitness returns (times ScoreOne) and the log that
\* checker.getViolations() holds afterwards
fitnessResult(r) ==
    [fitness |-> r.hardViolations * hardConstraintWeight * ScoreOne + r.softPenalty,
     violations |-> r.log]

\* resetViolations, then the loop over the whole schedule
calculateFitness(schedule) == fitnessResult(fitnessLoop(schedule, Len(schedule)))

----------------------------------------------------------------------------
(* SimulatedAnnealing: candidate rooms and slots *)

TIME_SLOTS == TIME_SLOTS_PAGI \o TIME_SLOTS_SORE

\* this.rooms.find(room => room.Code === r)
roomFind(code) ==
    rooms[CHOOSE i \in 1..Len(rooms) :
            /\ rooms[i].Code = code
            /\ \A j \in 1..(i-1) : rooms[j].Code # code]

\* this.rooms.filter(keep).map(r => r.Code)
roomCodesWhere(keep(_)) ==
    LET kept == SelectSeq(rooms, keep)
    IN  [i \in 1..Len(kept) |-> kept[i].Code]

\* the candidate room codes: the class's own list filtered by capacity, else lab
\* rooms with a fallback to the non-lab list, else every room of that capacity
eligibleRooms(reqRooms, needsLab, participants) ==
    LET trimmed == [i \in 1..Len(reqRooms) |-> trim(reqRooms[i])]
        fits(r) == roomKnown(r) /\ roomFind(r).Capacity >= participants
        listed == SelectSeq(trimmed, fits)
        isLab(r) == r.Code \in LAB_ROOMS /\ r.Capacity >= participants
        isNonLab(r) == r.Code \in NON_LAB_ROOMS /\ r.Capacity >= participants
        isAny(r) == r.Capacity >= participants
    IN  IF Len(listed) # 0 THEN listed
        ELSE IF needsLab
             THEN (IF Len(roomCodesWhere(isLab)) # 0 THEN roomCodesWhere(isLab)
                   ELSE roomCodesWhere(isNonLab))
             ELSE roomCodesWhere(isAny)

\* variant: the slots of the shift without the day and prayer-time filters
eligibleSlotsUnfiltered(classType, prodi) ==
    LET late(slot) == startHour(slot.startTime) >= 15
    IN  IF classType = "sore" THEN SelectSeq(TIME_SLOTS, late) ELSE TIME_SLOTS_PAGI

\* variant: an evening class is offered the slots of every hour
eligibleSlotsAnyHour(classType, prodi) ==
    LET byShift == IF classType = "sore" THEN TIME_SLOTS ELSE TIME_SLOTS_PAGI
        notSaturday(slot) == slot.day # "Saturday"
        byDay == IF ~includesMagisterManajemen(toLowerCase(prodi))
                 THEN SelectSeq(byShift, notSaturday) ELSE byShift
        fridayOk(slot) == slot.day = "Friday" => isValidFridayStartTime(slot.startTime)
        notPrayerStart(slot) == ~isStartingDuringPrayerTime(slot.startTime)
    IN  SelectSeq(SelectSeq(byDay, fridayOk), notPrayerStart)

\* the candidate slots of a class of that shift and program
eligibleSlots(classType, prodi) ==
    LET late(slot) == startHour(slot.startTime) >= 15
        byShift == IF classType = "sore" THEN SelectSeq(TIME_SLOTS, late)
                   ELSE TIME_SLOTS_PAGI
        notSaturday(slot) == slot.day # "Saturday"
        byDay == IF ~includesMagisterManajemen(toLowerCase(prodi))
                 THEN SelectSeq(byShift, notSaturday) ELSE byShift
        fridayOk(slot) == slot.day = "Friday" => isValidFridayStartTime(slot.startTime)
        notPrayerStart(slot) == ~isStartingDuringPrayerTime(slot.startTime)
    IN  SelectSeq(SelectSeq(byDay, fridayOk), notPrayerStart)

----------------------------------------------------------------------------
(* SimulatedAnnealing.generateInitialSolution *)

\* the lecturer codes of a class requirement, empty fields left out
lecturersOf(classReq) ==
    LET nonEmpty(c) == c # ""
    IN  SelectSeq(<<classReq.Kode_Dosen1, classReq.Kode_Dosen2,
                    classReq.Kode_Dosen_Prodi_Lain1, classReq.Kode_Dosen_Prodi_Lain2>>,
                  nonEmpty)

participantsOf(classReq) == IF classReq.Peserta # 0 THEN classReq.Peserta ELSE 30
needsLabOf(classReq) == toLowerCase(classReq.should_on_the_lab) = "yes"
classTypeOf(classReq) ==
    IF toLowerCase(classReq.Class_Type) # "" THEN toLowerCase(classReq.Class_Type)
    ELSE "pagi"
prodiOf(classReq) == IF classReq.Prodi # "" THEN classReq.Prodi ELSE "Unknown"
sksOf(classReq) == IF classReq.SKS # 0 THEN classReq.SKS ELSE 3

\* variant: a class requirement without a course code is not skipped
placeableAnyCode(classReq) ==
    /\ Len(lecturersOf(classReq)) # 0
    /\ Len(eligibleRooms(classReq.rooms, needsLabOf(classReq),
                         participantsOf(classReq))) # 0
    /\ Len(eligibleSlots(classTypeOf(classReq), prodiOf(classReq))) # 0

\* whether the loop body reaches schedule.push for this class
placeable(classReq) ==
    /\ classReq.Kode_Matakuliah # ""
    /\ Len(lecturersOf(classReq)) # 0
    /\ Len(eligibleRooms(classReq.rooms, needsLabOf(classReq),
                         participantsOf(classReq))) # 0
    /\ Len(eligibleSlots(classTypeOf(classReq), prodiOf(classReq))) # 0

\* the entries the loop body can push for a class: one per (room, slot) draw
entriesFor(classReq) ==
    LET roomCodes == eligibleRooms(classReq.rooms, needsLabOf(classReq),
                                   participantsOf(classReq))
        availableTimeSlots == eligibleSlots(classTypeOf(classReq), prodiOf(classReq))
    IN  {[classId |-> classReq.Kode_Matakuliah,
          prodi |-> prodiOf(classReq),
          lecturers |-> lecturersOf(classReq),
          room |-> roomCodes[r],
          timeSlot |-> availableTimeSlots[t],
          sks |-> sksOf(classReq),
          needsLab |-> needsLabOf(classReq),
          participants |-> participantsOf(classReq),
          classType |-> classTypeOf(classReq),
          prayerTimeAdded |->
              calculateEndTime(availableTimeSlots[t].startTime, sksOf(classReq),
                               availableTimeSlots[t].day).prayerTimeAdded] :
         <<r, t>> \in (1..Len(roomCodes)) \X (1..Len(availableTimeSlots))}

\* the schedules the loop can have built after the first k class requirements
RECURSIVE initialSchedules(_)
initialSchedules(k) ==
    IF k = 0 THEN {<<>>}
    ELSE IF ~placeable(classes[k]) THEN initialSchedules(k - 1)
    ELSE {Append(s, e) : <<s, e>> \in initialSchedules(k - 1) \X entriesFor(classes[k])}

----------------------------------------------------------------------------
(* SimulatedAnnealing.generateNeighbor *)

\* variant: the time-slot move without the recalculation of prayerTimeAdded
slotMovesStalePrayer(schedule, i) ==
    LET availableTimeSlots == eligibleSlots(schedule[i].classType, schedule[i].prodi)
    IN  IF Len(availableTimeSlots) > 0
        THEN {[schedule EXCEPT ![i].timeSlot = availableTimeSlots[t]] :
              t \in 1..Len(availableTimeSlots)}
        ELSE {schedule}

\* the time-slot move on entry i: every outcome of the draw
slotMoves(schedule, i) ==
    LET entry == schedule[i]
        availableTimeSlots == eligibleSlots(entry.classType, entry.prodi)
    IN  IF Len(availableTimeSlots) > 0
        THEN {[schedule EXCEPT
                 ![i].timeSlot = availableTimeSlots[t],
                 ![i].prayerTimeAdded =
                     calculateEndTime(availableTimeSlots[t].startTime, entry.sks,
                                      availableTimeSlots[t].day).prayerTimeAdded] :
              t \in 1..Len(availableTimeSlots)}
        ELSE {schedule}

\* this.classes.find(c => c.Kode_Matakuliah === entry.classId).rooms, or no list
roomListOf(classId) ==
    IF \E k \in 1..Len(classes) : classes[k].Kode_Matakuliah = classId
    THEN classes[CHOOSE k \in 1..Len(classes) :
                    /\ classes[k].Kode_Matakuliah = classId
                    /\ \A j \in 1..(k-1) : classes[j].Kode_Matakuliah # classId].rooms
    ELSE <<>>

\* the room move on entry i: every outcome of the draw
roomMoves(schedule, i) ==
    LET entry == schedule[i]
        roomCodes == eligibleRooms(roomListOf(entry.classId), entry.needsLab,
                                   entry.participants)
    IN  IF Len(roomCodes) > 0
        THEN {[schedule EXCEPT ![i].room = roomCodes[r]] : r \in 1..Len(roomCodes)}
        ELSE {schedule}

\* variant: two moves are made in one call
neighborSchedulesTwoMoves(schedule) ==
    LET first == UNION {slotMoves(schedule, i) \cup roomMoves(schedule, i) :
                          i \in 1..Len(schedule)}
    IN  UNION {slotMoves(once, j) \cup roomMoves(once, j) :
                 <<once, j>> \in first \X (1..Len(schedule))}

\* the schedules generateNeighbor can return for a non-empty schedule
neighborSchedules(schedule) ==
    UNION {slotMoves(schedule, i) \cup roomMoves(schedule, i) : i \in 1..Len(schedule)}

\* a variant of neighborFitness that keeps the fitness of the solution given
neighborFitnessKept(oldFitness, r) == oldFitness

\* the fitness generateNeighbor stores in the solution it returns: that of the
\* evaluation r of the new schedule, not the one of the solution it was given
neighborFitness(oldFitness, r) == r.fitness

----------------------------------------------------------------------------
(* SimulatedAnnealing.acceptanceProbability and solve *)

\* Math.exp(x) in units of 1/RndLevels: at least 1 for x >= 0 (every draw is
\* below it), some value in [0, 1) for x < 0
expValues(x) == IF x >= 0 THEN {RndLevels} ELSE 0..(RndLevels - 1)

\* a variant of acceptanceProbability: no shortcut and the difference reversed
acceptanceProbabilityReversed(currentFitness, nextFitness, temp) ==
    expValues(nextFitness - currentFitness)

\* the values acceptanceProbability can return, in units of 1/RndLevels
acceptanceProbability(currentFitness, nextFitness, temp) ==
    IF nextFitness < currentFitness THEN {RndLevels}
    ELSE expValues(currentFitness - nextFitness)

\* a variant of the while condition: either test keeps the loop going
loopConditionEither ==
    temperature > config.minTemperature \/ iteration < config.maxIterations

\* the while condition of solve
loopCondition == temperature > config.minTemperature /\ iteration < config.maxIterations

\* a variant of isNewBest with the comparison reversed
isNewBestReversed(fitness, best) == fitness > best

\* currentSolution.fitness < bestSolution.fitness
isNewBest(fitness, best) == fitness < best

\* variant: the temperature doubled in place of cooled
cooledUpward(temp) == temp * 2

\* temperature *= coolingRate
cooled(temp) == (temp * config.coolingRate[1]) \div config.coolingRate[2]

\* the ViolationReport built from the checker's log
reportOf(log) ==
    LET isHard(v) == v.severity = "hard"
        isSoft(v) == v.severity = "soft"
        hardViolations == SelectSeq(log, isHard)
        softViolations == SelectSeq(log, isSoft)
        types == {log[k].constraintType : k \in 1..Len(log)}
    IN  [hardConstraintViolations |-> hardViolations,
         softConstraintViolations |-> softViolations,
         summary |->
           [totalHardViolations |-> Len(hardViolations),
            totalSoftViolations |-> Len(softViolations),
            violationsByType |->
                [t \in types |->
                    Cardinality({k \in 1..Len(log) : log[k].constraintType = t})]]]

----------------------------------------------------------------------------
(* Inputs *)

Room(code, type, capacity) == [Code |-> code, Type |-> type, Capacity |-> capacity]

Lecturer(time, researchDay, transit, maxPeriods, room) ==
    [Prefered_Time |-> time, Research_Day |-> researchDay, Transit_Time |-> transit,
     Max_Daily_Periods |-> maxPeriods, Prefered_Room |-> room]

Class(prodi, code, sks, peserta, dosen1, dosen2, classType, lab, roomList) ==
    [Prodi |-> prodi, Kode_Matakuliah |-> code, SKS |-> sks, Peserta |-> peserta,
     Kode_Dosen1 |-> dosen1, Kode_Dosen2 |-> dosen2,
     Kode_Dosen_Prodi_Lain1 |-> "", Kode_Dosen_Prodi_Lain2 |-> "",
     Class_Type |-> classType, should_on_the_lab |-> lab, rooms |-> roomList]

\* a 50-minute slot, as the generation loops build it
Slot(day, hour, minute, period) ==
    [day |-> day, startTime |-> <<hour, minute>>,
     endTime |-> minutesToTime(hour * 60 + minute + 50), period |-> period]

\* no class can be placed: no course code, no lecturer, no room, no slot
NothingPlaceable ==
    [rooms |-> <<Room("CM-101", "Kelas", 40)>>,
     lecturers |-> [c \in {"L1"} |-> Lecturer("", "", 0, 0, "")],
     classes |-> <<Class("Informatika", "", 2, 30, "L1", "", "pagi", "no", <<>>),
                   Class("Informatika", "IF101", 2, 30, "", "", "pagi", "no", <<>>),
                   Class("Informatika", "IF102", 2, 100, "L1", "", "pagi", "no", <<>>),
                   Class("Informatika", "IF103", 2, 30, "L1", "", "pagi", "no", <<>>)>>,
     pagi |-> <<Slot("Saturday", 7, 30, 1)>>,
     sore |-> <<>>]

\* a lab class, the only lab room too small, a non-lab room of the built-in list
LabFallbackListed ==
    [rooms |-> <<Room("CM-206", "Lab", 20), Room("CM-101", "Kelas", 40)>>,
     lecturers |-> [c \in {"L1"} |-> Lecturer("Pagi", "", 0, 0, "CM-101")],
     classes |-> <<Class("Informatika", "IF201", 2, 30, "L1", "", "Pagi", "Yes", <<>>),
                   Class("Manajemen", "MN201", 0, 0, "L2", "", "", "No", <<" CM-101">>)>>,
     pagi |-> <<Slot("Monday", 7, 30, 1), Slot("Monday", 10, 30, 4)>>,
     sore |-> <<>>]

\* the same with a non-lab room whose code is not in the built-in list
LabFallbackUnlisted ==
    [rooms |-> <<Room("CM-206", "Lab", 20), Room("R-1", "Kelas", 40)>>,
     lecturers |-> [c \in {"L1"} |-> Lecturer("Pagi", "", 0, 0, "R-1")],
     classes |-> <<Class("Informatika", "IF201", 2, 30, "L1", "", "Pagi", "Yes", <<>>),
                   Class("Manajemen", "MN201", 2, 30, "L2", "", "pagi", "No", <<>>)>>,
     pagi |-> <<Slot("Monday", 7, 30, 1), Slot("Monday", 10, 30, 4)>>,
     sore |-> <<>>]

\* three classes of one lecturer and one program in one room: a long one and two
\* short ones
SharedLecturer ==
    [rooms |-> <<Room("CM-101", "Kelas", 40)>>,
     lecturers |-> [c \in {"L1"} |-> Lecturer("pagi", "", 30, 4, "")],
     classes |-> <<Class("Informatika", "IF301", 3, 30, "L1", "", "pagi", "no", <<>>),
                   Class("Informatika", "IF302", 1, 30, "L1", "", "pagi", "no", <<>>),
                   Class("Informatika", "IF303", 1, 30, "L1", "", "pagi", "no", <<>>)>>,
     pagi |-> <<Slot("Monday", 7, 30, 1), Slot("Monday", 8, 30, 2)>>,
     sore |-> <<>>]

\* two classes of one lecturer, two rooms, a single slot; a third class
\* requirement has no course code
OneSlot ==
    [rooms |-> <<Room("CM-101", "Kelas", 40), Room("CM-102", "Kelas", 40)>>,
     lecturers |-> [c \in {"L1", "L2"} |->
                      IF c = "L1" THEN Lecturer("siang", "", 0, 0, "CM-102")
                      ELSE Lecturer("", " Monday", 0, 0, "")],
     classes |-> <<Class("Informatika", "IF401", 2, 30, "L1", "", "pagi", "no", <<>>),
                   Class("Manajemen", "MN401", 2, 30, "L2", "L1", "pagi", "no", <<>>),
                   Class("Informatika", "", 2, 30, "L1", "", "pagi", "no", <<>>)>>,
     pagi |-> <<Slot("Tuesday", 10, 30, 4)>>,
     sore |-> <<>>]

\* an evening class and a Magister Manajemen class of one lecturer; the morning
\* catalogue, one supplied as customTimeSlots, holds a Friday slot at 11:30, a
\* Saturday slot, a slot at 12:00 and a slot at 18:30
Restricted ==
    [rooms |-> <<Room("CM-101", "Kelas", 40), Room("CM-102", "Kelas", 20)>>,
     lecturers |-> [c \in {"L1"} |-> Lecturer("Sore", "", 90, 0, "CM-101")],
     classes |-> <<Class("Informatika", "IF501", 1, 30, "L1", "", "Sore", "no", <<>>),
                   Class("Magister Manajemen", "MM501", 1, 15, "L1", "", "pagi", "no",
                         <<"CM-102 ">>)>>,
     pagi |-> <<Slot("Monday", 7, 30, 1), Slot("Monday", 12, 0, 5),
                Slot("Monday", 16, 30, 10), Slot("Monday", 18, 30, 12),
                Slot("Friday", 11, 30, 5), Slot("Saturday", 7, 30, 1)>>,
     sore |-> <<Slot("Monday", 18, 30, 1)>>]

\* two sections of one course: the same course code, a candidate room each
SameCode ==
    [rooms |-> <<Room("CM-101", "Kelas", 40), Room("CM-102", "Kelas", 40)>>,
     lecturers |-> [c \in {"L1", "L2"} |-> Lecturer("", "", 0, 0, "")],
     classes |-> <<Class("Informatika", "IF601", 2, 30, "L1", "", "pagi", "no",
                         <<"CM-101">>),
                   Class("Informatika", "IF601", 2, 30, "L2", "", "pagi", "no",
                         <<"CM-102">>)>>,
     pagi |-> <<Slot("Monday", 7, 30, 1)>>,
     sore |-> <<>>]

Scenarios == {NothingPlaceable, LabFallbackListed, LabFallbackUnlisted,
              SharedLecturer, OneSlot, Restricted, SameCode}

\* temperature schedules: the loop ends by temperature (2 -> 1) or by iterations
Configs ==
    {[initialTemperature |-> t, minTemperature |-> 1, coolingRate |-> <<1, 2>>,
      maxIterations |-> MaxIterations,
      reheatingThreshold |-> 1, reheatingFactor |-> 4, maxReheats |-> 1] :
     t \in {2, 16}}

----------------------------------------------------------------------------
(* The run of solve() *)

\* no helper function has been called
NoCall == [op |-> "none", args |-> <<>>, result |-> <<>>]

\* undefined, and an object without fields
Undefined == <<>>

\* the defaults of config.ts as the module exports them; decimal literals are
\* <<numerator, denominator>>, times are <<hour, minute>>
DefaultsAtLoad ==
    [initialTemperature |-> 10000,
     minTemperature |-> <<1, 10000000>>,
     coolingRate |-> <<997, 1000>>,
     maxIterations |-> 15000,
     reheatingThreshold |-> 1200,
     reheatingFactor |-> 100,
     maxReheats |-> 7,
     hardConstraintWeight |-> 100000,
     softConstraintWeights |->
         [preferredTime |-> 10, preferredRoom |-> 5, transitTime |-> 20,
          compactness |-> 8, prayerTimeOverlap |-> 15, eveningClassPriority |-> 25,
          labRequirement |-> 10, overflowPenalty |-> 5],
     timeSlotConfig |->
         [pagi |-> [startTime |-> <<7, 30>>, endTime |-> <<17, 0>>, slotDuration |-> 50],
          sore |-> [startTime |-> <<15, 30>>, endTime |-> <<21, 0>>, slotDuration |-> 50],
          days |-> DAYS],
     customTimeSlots |-> Undefined]

Init ==
    /\ \E s \in Scenarios :
         /\ rooms = s.rooms
         /\ lecturers = s.lecturers
         /\ classes = s.classes
         /\ TIME_SLOTS_PAGI = s.pagi
         /\ TIME_SLOTS_SORE = s.sore
    /\ config \in Configs
    /\ pc = "start"
    /\ curSchedule = <<>> /\ curFitness = 0
    /\ bestSchedule = <<>> /\ bestFitness = 0
    /\ newSchedule = <<>> /\ newFitness = 0 /\ acceptProb = 0 /\ rnd = 0
    /\ temperature = 0 /\ iteration = 0
    /\ violations = <<>>
    /\ report = reportOf(<<>>)
    /\ noImprove = 0 /\ reheats = 0
    /\ call = NoCall
    /\ DEFAULT_ALGORITHM_CONFIG = DefaultsAtLoad

\* generateInitialSolution, the copy into bestSolution, temperature and iteration
GenerateInitialSolution ==
    /\ pc = "start"
    /\ \E schedule \in initialSchedules(Len(classes)) :
         \E r \in {calculateFitness(schedule)} :
             /\ curSchedule' = schedule
             /\ curFitness' = r.fitness
             /\ bestSchedule' = schedule
             /\ bestFitness' = r.fitness
             /\ violations' = r.violations
    /\ temperature' = config.initialTemperature
    /\ iteration' = 0
    /\ pc' = "loop"
    /\ UNCHANGED <<inputVars, callVars, iterVars, report, reheatVars>>

\* variant: generateNeighbor without the copy of solution.schedule, so the move
\* is made on the entries of the current solution
GenerateNeighborInPlace ==
    /\ pc = "loop"
    /\ loopCondition
    /\ Len(curSchedule) > 0
    /\ \E schedule \in neighborSchedules(curSchedule) :
         \E r \in {calculateFitness(schedule)} :
             /\ newSchedule' = schedule
             /\ curSchedule' = schedule
             /\ newFitness' = neighborFitness(curFitness, r)
             /\ violations' = r.violations
             /\ acceptProb' \in acceptanceProbability(curFitness, newFitness', temperature)
    /\ rnd' \in 0..(RndLevels - 1)
    /\ pc' = "accept"
    /\ UNCHANGED <<inputVars, callVars, curFitness, bestSchedule, bestFitness,
                   temperature, iteration, report, reheatVars>>

\* one pass of the loop up to the acceptance test: generateNeighbor,
\* acceptanceProbability and the Math.random() draw
GenerateNeighbor ==
    /\ pc = "loop"
    /\ loopCondition
    /\ Len(curSchedule) > 0
    /\ \E schedule \in neighborSchedules(curSchedule) :
         \E r \in {calculateFitness(schedule)} :
             /\ newSchedule' = schedule
             /\ newFitness' = neighborFitness(curFitness, r)
             /\ violations' = r.violations
             /\ acceptProb' \in acceptanceProbability(curFitness, newFitness', temperature)
    /\ rnd' \in 0..(RndLevels - 1)
    /\ pc' = "accept"
    /\ UNCHANGED <<inputVars, callVars, solVars, temperature, iteration, report, reheatVars>>

\* generateNeighbor on an empty schedule: newSchedule[0] is undefined and reading
\* a property of it throws a TypeError out of solve()
GenerateNeighborThrows ==
    /\ pc = "loop"
    /\ loopCondition
    /\ Len(curSchedule) = 0
    /\ pc' = "threw"
    /\ UNCHANGED <<inputVars, callVars, solVars, iterVars, temperature, iteration,
                   violations, report, reheatVars>>

\* whether the draw accepts the neighbour
accepts == rnd < acceptProb

\* the rest of the pass: acceptance, best tracking, cooling, iteration++
Accept ==
    /\ pc = "accept"
    /\ IF accepts
       THEN /\ curSchedule' = newSchedule
            /\ curFitness' = newFitness
            /\ IF isNewBest(newFitness, bestFitness)
               THEN bestSchedule' = newSchedule /\ bestFitness' = newFitness
               ELSE UNCHANGED <<bestSchedule, bestFitness>>
       ELSE UNCHANGED solVars
    /\ temperature' = cooled(temperature)
    /\ iteration' = iteration + 1
    /\ newSchedule' = <<>> /\ newFitness' = 0 /\ acceptProb' = 0 /\ rnd' = 0
    /\ pc' = "loop"
    /\ UNCHANGED <<inputVars, callVars, violations, report, reheatVars>>

\* variant: the report is built from the log the last evaluation left
FinishStaleLog ==
    /\ pc = "loop"
    /\ ~loopCondition
    /\ report' = reportOf(violations)
    /\ pc' = "done"
    /\ UNCHANGED <<inputVars, callVars, solVars, iterVars, temperature, iteration,
                   violations, reheatVars>>

\* after the loop: the best schedule is scored again and the report attached
Finish ==
    /\ pc = "loop"
    /\ ~loopCondition
    /\ violations' = calculateFitness(bestSchedule).violations
    /\ report' = reportOf(violations')
    /\ pc' = "done"
    /\ UNCHANGED <<inputVars, callVars, solVars, iterVars, temperature, iteration, reheatVars>>

Next ==
    \/ GenerateInitialSolution
    \/ GenerateNeighbor
    \/ GenerateNeighborThrows
    \/ Accept
    \/ Finish

Spec == Init /\ [][Next]_vars

----------------------------------------------------------------------------
(* The annealing loop with reheating.  The loop that reads reheatingThreshold,
   reheatingFactor and maxReheats is modelled from the specification's section
   on cooling and reheating; the three settings are those of config.ts. *)

\* iterations since the last new best solution, after this pass
stagnation(count, improved) == IF improved THEN 0 ELSE count + 1

\* a reheat is due: the count has reached the threshold and reheats remain
shouldReheat(count, done) ==
    count >= config.reheatingThreshold /\ done < config.maxReheats

reheated(temp) == temp * config.reheatingFactor

\* one pass with reheating: acceptance, best tracking, the stagnation count,
\* the reheat when due, cooling, iteration++
AcceptReheat ==
    /\ pc = "accept"
    /\ IF accepts
       THEN /\ curSchedule' = newSchedule
            /\ curFitness' = newFitness
            /\ IF isNewBest(newFitness, bestFitness)
               THEN bestSchedule' = newSchedule /\ bestFitness' = newFitness
               ELSE UNCHANGED <<bestSchedule, bestFitness>>
       ELSE UNCHANGED solVars
    /\ \E count \in {stagnation(noImprove, accepts /\ isNewBest(newFitness, bestFitness))} :
         IF shouldReheat(count, reheats)
         THEN /\ temperature' = cooled(reheated(temperature))
              /\ reheats' = reheats + 1
              \* whether the count starts over after a reheat is left open
              /\ noImprove' \in {0, count}
         ELSE /\ temperature' = cooled(temperature)
              /\ reheats' = reheats
              /\ noImprove' = count
    /\ iteration' = iteration + 1
    /\ newSchedule' = <<>> /\ newFitness' = 0 /\ acceptProb' = 0 /\ rnd' = 0
    /\ pc' = "loop"
    /\ UNCHANGED <<inputVars, callVars, violations, report>>

NextReheat ==
    \/ GenerateInitialSolution
    \/ GenerateNeighbor
    \/ GenerateNeighborThrows
    \/ AcceptReheat
    \/ Finish

SpecReheat == Init /\ [][NextReheat]_vars

----------------------------------------------------------------------------
(* The slot catalogues built when the module is loaded, and the helper
   functions called on their own *)

\* the while loop of the morning catalogue from (hour, minute) on
RECURSIVE pagiSlotsFrom(_, _, _, _)
pagiSlotsFrom(day, hour, minute, period) ==
    IF ~(hour < 17 \/ (hour = 17 /\ minute = 0)) THEN <<>>
    ELSE LET endHour == IF minute + 50 >= 60 THEN hour + ((minute + 50) \div 60) ELSE hour
             endMinute == (minute + 50) % 60
             slot == [day |-> day, startTime |-> <<hour, minute>>,
                      endTime |-> <<endHour, endMinute>>, period |-> period]
             nextHour == IF endMinute + 10 >= 60 THEN hour + ((endMinute + 10) \div 60)
                         ELSE endHour
         IN  <<slot>> \o pagiSlotsFrom(day, nextHour, (endMinute + 10) % 60, period + 1)

\* the while loop of the evening catalogue, which stops at a slot ending after 21:00
RECURSIVE soreSlotsFrom(_, _, _, _)
soreSlotsFrom(day, hour, minute, period) ==
    IF ~(hour < 21 \/ (hour = 21 /\ minute = 0)) THEN <<>>
    ELSE LET endHour == IF minute + 50 >= 60 THEN hour + ((minute + 50) \div 60) ELSE hour
             endMinute == (minute + 50) % 60
             slot == [day |-> day, startTime |-> <<hour, minute>>,
                      endTime |-> <<endHour, endMinute>>, period |-> period]
             nextHour == IF endMinute + 10 >= 60 THEN hour + ((endMinute + 10) \div 60)
                         ELSE endHour
         IN  IF endHour > 21 \/ (endHour = 21 /\ endMinute > 0) THEN <<>>
             ELSE <<slot>> \o soreSlotsFrom(day, nextHour, (endMinute + 10) % 60, period + 1)

\* the shifts of the two loops: start and end as the loops have them
builtInShift(shift) ==
    IF shift = "pagi" THEN [startTime |-> <<7, 30>>, endTime |-> <<17, 0>>, slotDuration |-> 50]
    ELSE [startTime |-> <<18, 30>>, endTime |-> <<21, 0>>, slotDuration |-> 50]

\* the slots one pass of the for loop over DAYS adds for a day
slotsOfDay(shift, day) ==
    IF shift = "pagi" THEN pagiSlotsFrom(day, 7, 30, 1) ELSE soreSlotsFrom(day, 18, 30, 1)

\* the slots of a day are generated
CallGenerateSlots ==
    /\ call = NoCall
    /\ \E shift \in {"pagi", "sore"}, d \in 1..Len(DAYS) :
         call' = [op |-> "generateSlots", args |-> <<shift, DAYS[d]>>,
                  result |-> slotsOfDay(shift, DAYS[d])]
    /\ UNCHANGED <<DEFAULT_ALGORITHM_CONFIG, inputVars, pc, solVars, iterVars, temperature, iteration,
                   violations, report, reheatVars>>

\* the objects mergeConfig reads besides DEFAULT_ALGORITHM_CONFIG: the same
\* objects its fields hold
DEFAULT_SOFT_CONSTRAINT_WEIGHTS == DEFAULT_ALGORITHM_CONFIG.softConstraintWeights
DEFAULT_TIME_SLOT_CONFIG == DEFAULT_ALGORITHM_CONFIG.timeSlotConfig

\* obj?.key
get(obj, key) == IF key \in DOMAIN obj THEN obj[key] ELSE Undefined

\* { ...d, ...u }
spread(d, u) ==
    [k \in DOMAIN d \cup DOMAIN u |-> IF k \in DOMAIN u THEN u[k] ELSE d[k]]

\* the deep merge of timeSlotConfig
mergedTimeSlotConfig(userConfig) ==
    LET timeSlotConfig == get(userConfig, "timeSlotConfig")
    IN  [pagi |-> spread(DEFAULT_TIME_SLOT_CONFIG.pagi, get(timeSlotConfig, "pagi")),
         sore |-> spread(DEFAULT_TIME_SLOT_CONFIG.sore, get(timeSlotConfig, "sore")),
         days |-> IF get(timeSlotConfig, "days") # Undefined
                  THEN timeSlotConfig.days ELSE DEFAULT_TIME_SLOT_CONFIG.days]

\* variant: customTimeSlots is not taken from the user configuration
mergeConfigWithoutCustom(userConfig) ==
    spread(spread(DEFAULT_ALGORITHM_CONFIG, userConfig),
           [softConstraintWeights |->
                spread(DEFAULT_SOFT_CONSTRAINT_WEIGHTS,
                       get(userConfig, "softConstraintWeights")),
            timeSlotConfig |-> mergedTimeSlotConfig(userConfig),
            customTimeSlots |-> DEFAULT_ALGORITHM_CONFIG.customTimeSlots])

\* variant: the nested objects are replaced whole by the user's
mergeConfigShallow(userConfig) == spread(DEFAULT_ALGORITHM_CONFIG, userConfig)

mergeConfig(userConfig) ==
    spread(spread(DEFAULT_ALGORITHM_CONFIG, userConfig),
           [softConstraintWeights |->
                spread(DEFAULT_SOFT_CONSTRAINT_WEIGHTS,
                       get(userConfig, "softConstraintWeights")),
            timeSlotConfig |-> mergedTimeSlotConfig(userConfig),
            \* customTimeSlots will override everything if provided
            customTimeSlots |-> get(userConfig, "customTimeSlots")])

\* variant: the merged fields are assigned into the defaults object
defaultsAfterMergeAssigned(userConfig) == mergeConfig(userConfig)

\* DEFAULT_ALGORITHM_CONFIG after a call: mergeConfig assigns to new objects only
defaultsAfterMerge(userConfig) == DEFAULT_ALGORITHM_CONFIG

\* user configurations: each field supplied or left out.  (A days list is not
\* empty and a customTimeSlots object has a field, so that neither coincides
\* with Undefined.)
customPagi ==
    <<[day |-> "Monday", startTime |-> <<8, 0>>, endTime |-> <<9, 30>>, period |-> 1],
      [day |-> "Monday", startTime |-> <<9, 45>>, endTime |-> <<11, 15>>, period |-> 2]>>
customSore ==
    <<[day |-> "Monday", startTime |-> <<18, 0>>, endTime |-> <<20, 0>>, period |-> 1]>>

UserConfigs ==
    {spread(spread(a, b), spread(c, d)) :
        a \in {Undefined, [maxIterations |-> 20000],
               [maxIterations |-> 20000, coolingRate |-> <<995, 1000>>]},
        b \in {Undefined, [softConstraintWeights |-> [preferredTime |-> 100]]},
        c \in {Undefined,
               [timeSlotConfig |-> [pagi |-> [startTime |-> <<8, 0>>]]],
               [timeSlotConfig |-> [sore |-> [startTime |-> <<16, 0>>, endTime |-> <<20, 0>>]]],
               [timeSlotConfig |-> [days |-> <<"Monday", "Tuesday", "Wednesday">>]],
               [timeSlotConfig |->
                   [pagi |-> [startTime |-> <<8, 0>>, endTime |-> <<8, 30>>,
                              slotDuration |-> 50],
                    days |-> <<"Monday">>]]},
        d \in {Undefined,
               [customTimeSlots |-> [pagi |-> customPagi]],
               [customTimeSlots |-> [sore |-> customSore]],
               [customTimeSlots |-> [pagi |-> customPagi, sore |-> customSore]]}}

\* mergeConfig is called with a user configuration, or with none
CallMergeConfig ==
    /\ call = NoCall
    /\ \E userConfig \in UserConfigs :
         /\ call' = [op |-> "mergeConfig", args |-> <<userConfig>>,
                     result |-> mergeConfig(userConfig)]
         /\ DEFAULT_ALGORITHM_CONFIG' = defaultsAfterMerge(userConfig)
    /\ UNCHANGED <<inputVars, pc, solVars, iterVars, temperature, iteration,
                   violations, report, reheatVars>>

\* generate(shiftConfig, days) for one day from minute start on: a slot of
\* slotDuration minutes and a 10-minute break, until the next slot would end
\* after endTime
RECURSIVE generateFrom(_, _, _, _)
generateFrom(shiftConfig, day, start, period) ==
    IF start + shiftConfig.slotDuration > timeToMinutes(shiftConfig.endTime) THEN <<>>
    ELSE <<[day |-> day, startTime |-> minutesToTime(start),
            endTime |-> minutesToTime(start + shiftConfig.slotDuration),
            period |-> period]>>
         \o generateFrom(shiftConfig, day, start + shiftConfig.slotDuration + 10, period + 1)

RECURSIVE generate(_, _)
generate(shiftConfig, days) ==
    IF days = <<>> THEN <<>>
    ELSE generateFrom(shiftConfig, Head(days), timeToMinutes(shiftConfig.startTime), 1)
         \o generate(shiftConfig, Tail(days))

\* the slot sequence of a shift under a merged configuration: the full override
\* if one is given for the shift, else the sequence generated from timeSlotConfig
slotsForShift(merged, shift) ==
    IF shift \in DOMAIN merged.customTimeSlots THEN merged.customTimeSlots[shift]
    ELSE generate(merged.timeSlotConfig[shift], merged.timeSlotConfig.days)

\* the catalogues are set up from a user configuration
CallInitializeTimeSlots ==
    /\ call = NoCall
    /\ \E userConfig \in UserConfigs :
         \E merged \in {mergeConfig(userConfig)} :
             call' = [op |-> "initializeTimeSlots", args |-> <<userConfig>>,
                      result |-> [pagi |-> slotsForShift(merged, "pagi"),
                                  sore |-> slotsForShift(merged, "sore")]]
    /\ UNCHANGED <<DEFAULT_ALGORITHM_CONFIG, inputVars, pc, solVars, iterVars,
                   temperature, iteration, violations, report, reheatVars>>

\* the minutes of a day, and the valid times "00:00" .. "23:59"
MinutesOfDay == 0..(24 * 60 - 1)
ValidTimes == (0..23) \X (0..59)

CallTimeToMinutes ==
    /\ call = NoCall
    /\ \E time \in ValidTimes :
         call' = [op |-> "timeToMinutes", args |-> <<time>>,
                  result |-> timeToMinutes(time)]
    /\ UNCHANGED <<DEFAULT_ALGORITHM_CONFIG, inputVars, pc, solVars, iterVars,
                   temperature, iteration, violations, report, reheatVars>>

CallMinutesToTime ==
    /\ call = NoCall
    /\ \E minutes \in MinutesOfDay :
         call' = [op |-> "minutesToTime", args |-> <<minutes>>,
                  result |-> minutesToTime(minutes)]
    /\ UNCHANGED <<DEFAULT_ALGORITHM_CONFIG, inputVars, pc, solVars, iterVars,
                   temperature, iteration, violations, report, reheatVars>>

\* start times of classes: every five minutes from 06:00 to 21:55
StartTimes == (6..21) \X {5 * k : k \in 0..11}

CallCalculateEndTime ==
    /\ call = NoCall
    /\ \E startTime \in StartTimes, sks \in 1..MaxSks, d \in 1..Len(DAYS) :
         call' = [op |-> "calculateEndTime", args |-> <<startTime, sks, DAYS[d]>>,
                  result |-> calculateEndTime(startTime, sks, DAYS[d])]
    /\ UNCHANGED <<DEFAULT_ALGORITHM_CONFIG, inputVars, pc, solVars, iterVars,
                   temperature, iteration, violations, report, reheatVars>>

\* the fields of a ScheduleEntry that isTimeOverlap reads
OverlapEntries ==
    {[timeSlot |-> [day |-> day, startTime |-> startTime], sks |-> sks] :
        day \in {"Monday", "Friday"},
        startTime \in (7..18) \X {0, 30},
        sks \in 1..MaxSks}

CallIsTimeOverlap ==
    /\ call = NoCall
    /\ \E entry1, entry2 \in OverlapEntries :
         call' = [op |-> "isTimeOverlap", args |-> <<entry1, entry2>>,
                  result |-> isTimeOverlap(entry1, entry2)]
    /\ UNCHANGED <<DEFAULT_ALGORITHM_CONFIG, inputVars, pc, solVars, iterVars,
                   temperature, iteration, violations, report, reheatVars>>

CallIsValidFridayStartTime ==
    /\ call = NoCall
    /\ \E startTime \in ValidTimes :
         call' = [op |-> "isValidFridayStartTime", args |-> <<startTime>>,
                  result |-> isValidFridayStartTime(startTime)]
    /\ UNCHANGED <<DEFAULT_ALGORITHM_CONFIG, inputVars, pc, solVars, iterVars,
                   temperature, iteration, violations, report, reheatVars>>

\* the call returns; the next call can be made
Return ==
    /\ call # NoCall
    /\ call' = NoCall
    /\ UNCHANGED <<DEFAULT_ALGORITHM_CONFIG, inputVars, pc, solVars, iterVars,
                   temperature, iteration, violations, report, reheatVars>>

NextCalls ==
    \/ CallGenerateSlots
    \/ CallMergeConfig
    \/ CallInitializeTimeSlots
    \/ CallTimeToMinutes
    \/ CallMinutesToTime
    \/ CallCalculateEndTime
    \/ CallIsTimeOverlap
    \/ CallIsValidFridayStartTime
    \/ Return

\* the helper functions are called before a solver runs, with one input loaded
InitCalls ==
    /\ Init
    /\ classes = OneSlot.classes
    /\ config.initialTemperature = 2

SpecCalls == InitCalls /\ [][NextCalls]_vars

----------------------------------------------------------------------------
(* Properties *)

\* a schedule reordered by a permutation f of its positions
permuted(schedule, f) == [i \in 1..Len(schedule) |-> schedule[f[i]]]

reorderings(schedule) ==
    {permuted(schedule, f) : f \in Permutations(1..Len(schedule))}

\* the hard violations one evaluation of a schedule counts
hardCount(schedule) == fitnessLoop(schedule, Len(schedule)).hardViolations

\* the number of hard checks entry i fails against the entries before it
hardFailures(schedule, i) ==
    LET hard == hardChecks(SubSeq(schedule, 1, i - 1), schedule[i])
    IN  Cardinality({k \in 1..Len(hard) : ~hard[k].ok})

RECURSIVE sumTo(_, _)
sumTo(term(_), n) == IF n = 0 THEN 0 ELSE sumTo(term, n - 1) + term(n)

\* the soft penalties of a schedule, each entry scored against those before it
softSum(schedule) ==
    LET term(i) == softPenaltyOf(SubSeq(schedule, 1, i - 1), schedule[i])
    IN  sumTo(term, Len(schedule))

\* hardViolationCount * hardWeight + the soft penalties, from scratch
fitnessFromScratch(schedule) ==
    LET term(i) == hardFailures(schedule, i)
    IN  sumTo(term, Len(schedule)) * hardConstraintWeight * ScoreOne + softSum(schedule)

\* [start, adjustedEnd) of an entry in minutes: the nominal interval extended by
\* the prayer windows it intersects
startOf(entry) == entry.timeSlot.startTime[1] * 60 + entry.timeSlot.startTime[2]
nominalEndOf(entry) == startOf(entry) + entry.sks * 50 + (entry.sks - 1) * 10
adjustedEndOf(entry) ==
    nominalEndOf(entry)
    + (IF startOf(entry) < 750 /\ nominalEndOf(entry) > 700 THEN 50 ELSE 0)
    + (IF startOf(entry) < 930 /\ nominalEndOf(entry) > 900 THEN 30 ELSE 0)
    + (IF startOf(entry) < 1110 /\ nominalEndOf(entry) > 1080 THEN 30 ELSE 0)

\* the earlier entries (positions) that put entry i in a lecturer conflict
lecturerClashes(schedule, i) ==
    {k \in 1..(i - 1) :
        /\ schedule[k].timeSlot.day = schedule[i].timeSlot.day
        /\ startOf(schedule[k]) < adjustedEndOf(schedule[i])
        /\ startOf(schedule[i]) < adjustedEndOf(schedule[k])
        /\ \E a \in 1..Len(schedule[k].lecturers), b \in 1..Len(schedule[i].lecturers) :
               schedule[k].lecturers[a] = schedule[i].lecturers[b]}

\* the schedules the solver holds
heldSchedules == {curSchedule, bestSchedule, newSchedule}

\* C1: on an input where no class can be placed, solve() ends normally and
\* returns an empty schedule with fitness 0 and an empty report; no error is
\* raised, neighbour generation on the empty schedule included.
C1_NothingPlaceableReturnsEmpty ==
    (pc # "start" /\ \A k \in 1..Len(classes) : ~placeable(classes[k]))
    => /\ pc # "threw"
       /\ pc = "done" =>
            /\ bestSchedule = <<>>
            /\ bestFitness = 0
            /\ report.hardConstraintViolations = <<>>
            /\ report.softConstraintViolations = <<>>

\* a room the checker takes for a lab
isLabRoom(room) == includesLab(toLowerCase(room.Type)) \/ room.Code \in LAB_ROOMS

\* a class that needs a lab while no lab room holds it and some other room does
needsLabFallback(classReq) ==
    /\ classReq.Kode_Matakuliah # ""
    /\ Len(lecturersOf(classReq)) # 0
    /\ Len(eligibleSlots(classTypeOf(classReq), prodiOf(classReq))) # 0
    /\ needsLabOf(classReq)
    /\ ~\E i \in 1..Len(rooms) :
           isLabRoom(rooms[i]) /\ rooms[i].Capacity >= participantsOf(classReq)
    /\ \E i \in 1..Len(rooms) :
           ~isLabRoom(rooms[i]) /\ rooms[i].Capacity >= participantsOf(classReq)

\* C2: a class that needs a lab, with no lab room of sufficient capacity and at
\* least one non-lab room of sufficient capacity, is placed by initial
\* construction in a non-lab room and scores 0.5 on lab affinity, whatever the
\* room codes are.
C2_LabFallbackAnyRoomCode ==
    (pc = "loop" /\ iteration = 0)
    => \A k \in 1..Len(classes) :
          needsLabFallback(classes[k])
          => \E i \in 1..Len(curSchedule) :
                /\ curSchedule[i].classId = classes[k].Kode_Matakuliah
                /\ roomKnown(curSchedule[i].room)
                /\ ~isLabRoom(roomGet(curSchedule[i].room))
                /\ 2 * checkLabRequirement(curSchedule[i]) = ScoreOne

\* C3 as stated: the hard violations one evaluation counts are as many for every
\* reordering of the schedule's entries.
C3_HardCountOrderIndependent ==
    \A p \in reorderings(curSchedule) : hardCount(p) = hardCount(curSchedule)

\* C3 as amended: whether one evaluation counts no hard violation at all is the
\* same for every reordering of the schedule's entries (the count itself may
\* differ between reorderings).
C3_FeasibilityOrderIndependent ==
    \A p \in reorderings(curSchedule) :
        (hardCount(p) = 0) <=> (hardCount(curSchedule) = 0)

\* C3: a schedule of which two reorderings count different, non-zero totals
C3_Witness ==
    \E p \in reorderings(curSchedule) :
        /\ hardCount(p) # hardCount(curSchedule)
        /\ hardCount(p) > 0

\* C4: at every point of a run the fitness stored in the current and in the best
\* solution is hardViolationCount * hardWeight + the soft penalties of that
\* solution's own schedule, computed from scratch.
C4_StoredFitnessNeverStale ==
    pc # "start"
    => /\ curFitness = fitnessFromScratch(curSchedule)
       /\ bestFitness = fitnessFromScratch(bestSchedule)

\* C4: an accepted neighbour that is worse than the best solution kept
C4_Witness ==
    /\ pc = "loop"
    /\ iteration >= 1
    /\ curSchedule # bestSchedule
    /\ curFitness > bestFitness
    /\ bestFitness > 0

\* C5: checkNoLecturerConflict returns false and appends exactly one HC1 record,
\* attributed to the entry evaluated, when the entry shares a lecturer with an
\* earlier entry on the same day with intersecting [start, adjustedEnd)
\* intervals; otherwise it returns true and appends nothing.
C5_LecturerConflictOneRecord ==
    \A schedule \in heldSchedules :
        \A i \in 1..Len(schedule) :
            LET res == checkNoLecturerConflict(SubSeq(schedule, 1, i - 1), schedule[i])
            IN  IF lecturerClashes(schedule, i) # {}
                THEN /\ res.ok = FALSE
                     /\ res.log = <<[classId |-> schedule[i].classId,
                                     constraintType |-> "HC1: Lecturer Conflict",
                                     severity |-> "hard"]>>
                ELSE /\ res.ok = TRUE
                     /\ res.log = <<>>

\* C5: an entry in conflict with two earlier entries, and a neighbour in which
\* the second entry is in conflict with none
C5_Witness ==
    /\ pc = "accept"
    /\ Len(curSchedule) = 3
    /\ Cardinality(lecturerClashes(curSchedule, 3)) = 2
    /\ lecturerClashes(newSchedule, 2) = {}

\* two entries of the returned schedule share a lecturer and each has exactly
\* one eligible slot, the same one
sharedLecturerOneSlot ==
    \E i, j \in 1..Len(bestSchedule) :
        /\ i < j
        /\ \E a \in 1..Len(bestSchedule[i].lecturers) :
               includes(bestSchedule[j].lecturers, bestSchedule[i].lecturers[a])
        /\ Len(eligibleSlots(bestSchedule[i].classType, bestSchedule[i].prodi)) = 1
        /\ eligibleSlots(bestSchedule[i].classType, bestSchedule[i].prodi)
             = eligibleSlots(bestSchedule[j].classType, bestSchedule[j].prodi)

\* C6: with two placed classes of one lecturer and a single eligible slot, the
\* report of every returned solution holds an HC1 record, and the returned
\* fitness is hardWeight * (hard violations of the report) + the soft penalties
\* of the returned schedule.
C6_OneSlotReportsConflict ==
    (pc = "done" /\ sharedLecturerOneSlot)
    => /\ \E k \in 1..Len(report.hardConstraintViolations) :
              report.hardConstraintViolations[k].constraintType = "HC1: Lecturer Conflict"
       /\ bestFitness = hardConstraintWeight * ScoreOne * report.summary.totalHardViolations
                          + softSum(bestSchedule)

\* C6: a returned solution of such an input, after at least one iteration
C6_Witness == pc = "done" /\ sharedLecturerOneSlot /\ iteration > 0

\* C7: best.fitness <= current.fitness throughout, best.fitness never grows, and
\* the best solution changes only by becoming the solution just accepted.
C7_BestIsLowestAccepted ==
    /\ [](pc # "start" => bestFitness <= curFitness)
    /\ [][pc # "start"
            => /\ bestFitness' <= bestFitness
               /\ \/ bestSchedule' = bestSchedule /\ bestFitness' = bestFitness
                  \/ bestSchedule' = curSchedule' /\ bestFitness' = curFitness']_vars

\* C7: a run that ends with a current solution worse than the one returned
C7_Witness == pc = "done" /\ curFitness > bestFitness

\* C8: an iteration runs only while temperature > minTemperature and
\* iteration < maxIterations, the loop is left only when one of them fails, the
\* iteration count never exceeds maxIterations, and solve() can always take its
\* next step until it has ended.
C8_LoopBoundedByGuards ==
    /\ iteration <= config.maxIterations
    /\ pc = "accept"
         => temperature > config.minTemperature /\ iteration < config.maxIterations
    /\ pc = "done"
         => ~(temperature > config.minTemperature /\ iteration < config.maxIterations)
    /\ pc \notin {"done", "threw"} => ENABLED Next

\* C8: a run ended by the iteration count with the temperature still high
C8_Witness ==
    /\ pc = "done"
    /\ iteration = config.maxIterations
    /\ temperature > config.minTemperature

\* C9: a neighbour of lower fitness becomes the current solution whatever the
\* draw; a neighbour of higher fitness becomes it only if the draw is below an
\* acceptance probability taken from the exponential.
C9_BetterAlwaysAccepted ==
    [][pc = "accept"
         => /\ newFitness < curFitness
                 => curSchedule' = newSchedule /\ curFitness' = newFitness
            /\ (newFitness > curFitness /\ curSchedule' = newSchedule)
                 => /\ rnd < acceptProb
                    /\ acceptProb \in expValues(curFitness - newFitness)
                    /\ acceptProb < RndLevels]_vars

\* C9: a better neighbour met with the highest draw
C9_Witness ==
    /\ pc = "accept"
    /\ newFitness < curFitness
    /\ rnd = RndLevels - 1

entryLog(schedule, i) ==
    LET hard == hardChecks(SubSeq(schedule, 1, i - 1), schedule[i])
    IN  concatLogs(hard, Len(hard)) \o checkPrayerTimeOverlap(schedule[i]).log

\* the violations of a schedule alone: its entries' records in order
RECURSIVE freshLog(_, _)
freshLog(schedule, n) ==
    IF n = 0 THEN <<>> ELSE freshLog(schedule, n - 1) \o entryLog(schedule, n)

violationsOf(schedule) == freshLog(schedule, Len(schedule))

\* positions of a log by severity and by type
positionsOfSeverity(log, severity) == {k \in 1..Len(log) : log[k].severity = severity}
positionsOfType(log, type) == {k \in 1..Len(log) : log[k].constraintType = type}

RECURSIVE sumOver(_, _)
sumOver(f, S) ==
    IF S = {} THEN 0
    ELSE LET x == CHOOSE y \in S : TRUE IN f[x] + sumOver(f, S \ {x})

\* b holds the elements of a, in a's order, that a keeps at the positions in keep
isSubsequenceAt(b, a, keep) ==
    /\ Len(b) = Cardinality(keep)
    /\ \A k \in 1..Len(b) :
          \E j \in keep : Cardinality({m \in keep : m <= j}) = k /\ b[k] = a[j]

\* C11: the report of the returned solution is built from the log of one fresh
\* evaluation of the returned schedule: the hard list holds its records of
\* severity hard, the soft list those of severity soft, both in log order, the
\* two totals are the lengths of the lists, and violationsByType counts the
\* records of each type, the counts summing to the number of records.
C11_ReportIsFreshEvaluationOfBest ==
    pc = "done"
    => LET log == violationsOf(bestSchedule)
           byType == report.summary.violationsByType
       IN  /\ violations = log
           /\ isSubsequenceAt(report.hardConstraintViolations, log,
                              positionsOfSeverity(log, "hard"))
           /\ isSubsequenceAt(report.softConstraintViolations, log,
                              positionsOfSeverity(log, "soft"))
           /\ report.summary.totalHardViolations = Len(report.hardConstraintViolations)
           /\ report.summary.totalSoftViolations = Len(report.softConstraintViolations)
           /\ DOMAIN byType = {log[k].constraintType : k \in 1..Len(log)}
           /\ \A t \in DOMAIN byType : byType[t] = Cardinality(positionsOfType(log, t))
           /\ sumOver(byType, DOMAIN byType)
                = report.summary.totalHardViolations + report.summary.totalSoftViolations

\* C11: a returned solution with hard and soft records whose schedule is not the
\* last one accepted, the two having different logs
C11_Witness ==
    /\ pc = "done"
    /\ iteration > 0
    /\ report.hardConstraintViolations # <<>>
    /\ report.softConstraintViolations # <<>>
    /\ violationsOf(curSchedule) # violationsOf(bestSchedule)

\* C12: an evaluation started from whatever log the evaluations before it left
\* leaves exactly the violations of the schedule evaluated and returns its
\* fitness; so does the evaluation that left the present log.
C12_LogResetEveryEvaluation ==
    pc # "start"
    => /\ \A schedule \in heldSchedules :
             /\ calculateFitness(schedule).violations = violationsOf(schedule)
             /\ calculateFitness(schedule).fitness = fitnessFromScratch(schedule)
       /\ pc = "accept" => violations = violationsOf(newSchedule)
       /\ pc = "done" => violations = violationsOf(bestSchedule)
       /\ (pc = "loop" /\ iteration = 0) => violations = violationsOf(curSchedule)

\* C12: a neighbour evaluated after a schedule that left another, non-empty log
C12_Witness ==
    /\ pc = "accept"
    /\ violations # <<>>
    /\ violationsOf(curSchedule) # <<>>
    /\ violationsOf(curSchedule) # violations

\* a class requirement names at least one lecturer
hasLecturer(classReq) ==
    \/ classReq.Kode_Dosen1 # ""
    \/ classReq.Kode_Dosen2 # ""
    \/ classReq.Kode_Dosen_Prodi_Lain1 # ""
    \/ classReq.Kode_Dosen_Prodi_Lain2 # ""

\* the rooms of the collection that hold the class
roomsHolding(classReq) ==
    {i \in 1..Len(rooms) : rooms[i].Capacity >= participantsOf(classReq)}

\* the first room of each code listed by the class holds it
listedRoomsHolding(classReq) ==
    {i \in roomsHolding(classReq) :
        /\ \E r \in 1..Len(classReq.rooms) : trim(classReq.rooms[r]) = rooms[i].Code
        /\ \A j \in 1..(i - 1) : rooms[j].Code # rooms[i].Code}

\* the class has an eligible room: one of its own list, else (lab class) one of
\* the lab list or failing that of the non-lab list, else any that holds it
hasEligibleRoom(classReq) ==
    \/ listedRoomsHolding(classReq) # {}
    \/ IF needsLabOf(classReq)
       THEN \E i \in roomsHolding(classReq) :
               rooms[i].Code \in LAB_ROOMS \/ rooms[i].Code \in NON_LAB_ROOMS
       ELSE roomsHolding(classReq) # {}

\* the class has an eligible slot in the catalogue of its shift
hasEligibleSlot(classReq) ==
    \E k \in 1..Len(TIME_SLOTS) :
        LET slot == TIME_SLOTS[k]
            minutes == slot.startTime[1] * 60 + slot.startTime[2]
        IN  /\ IF classTypeOf(classReq) = "sore" THEN slot.startTime[1] >= 15
               ELSE k <= Len(TIME_SLOTS_PAGI)
            /\ slot.day = "Saturday"
                 => includesMagisterManajemen(toLowerCase(prodiOf(classReq)))
            /\ slot.day = "Friday" => ~(slot.startTime[1] \in {11, 12, 13})
            /\ ~(minutes >= 700 /\ minutes < 750)
            /\ ~(minutes >= 900 /\ minutes < 930)
            /\ ~(minutes >= 1080 /\ minutes < 1110)

\* the schedule holds one entry, in input order, for each class requirement at
\* the positions in keep, and nothing else
oneEntryPerClassAt(schedule, keep) ==
    /\ Len(schedule) = Cardinality(keep)
    /\ \A i \in 1..Len(schedule) :
          \E k \in keep :
              /\ Cardinality({m \in keep : m <= k}) = i
              /\ schedule[i].classId = classes[k].Kode_Matakuliah
              /\ schedule[i].lecturers = lecturersOf(classes[k])
              /\ schedule[i].participants = participantsOf(classes[k])

\* C13 as stated: initial construction yields exactly one entry, in input order,
\* for every class requirement with a lecturer, an eligible room and an eligible
\* slot, and no entry for any other.
C13_OneEntryPerPlaceableClass ==
    (pc = "loop" /\ iteration = 0)
    => oneEntryPerClassAt(curSchedule,
          {k \in 1..Len(classes) :
              /\ hasLecturer(classes[k])
              /\ hasEligibleRoom(classes[k])
              /\ hasEligibleSlot(classes[k])})

\* C13 as amended: initial construction yields exactly one entry, in input
\* order, for every class requirement with a course code, a lecturer, an
\* eligible room and an eligible slot, and no entry for any other.
C13_OneEntryPerCodedPlaceableClass ==
    (pc = "loop" /\ iteration = 0)
    => oneEntryPerClassAt(curSchedule,
          {k \in 1..Len(classes) :
              /\ classes[k].Kode_Matakuliah # ""
              /\ hasLecturer(classes[k])
              /\ hasEligibleRoom(classes[k])
              /\ hasEligibleSlot(classes[k])})

\* C13: an initial schedule with entries, from an input with a class requirement
\* that lacks only the course code
C13_Witness ==
    /\ pc = "loop" /\ iteration = 0
    /\ Len(curSchedule) > 1
    /\ \E k \in 1..Len(classes) :
          /\ classes[k].Kode_Matakuliah = ""
          /\ hasLecturer(classes[k])
          /\ hasEligibleRoom(classes[k])
          /\ hasEligibleSlot(classes[k])

\* C14: no generated slot of a day ends after the end of its shift, the
\* built-in morning shift 07:30-17:00 with 50-minute slots included.
C14_NoSlotEndsAfterShiftEnd ==
    call.op = "generateSlots"
    => \A k \in 1..Len(call.result) :
          call.result[k].endTime[1] * 60 + call.result[k].endTime[2]
            <= builtInShift(call.args[1]).endTime[1] * 60
                 + builtInShift(call.args[1]).endTime[2]

\* the fields a configuration object may hold, by object
scalarFields ==
    {"initialTemperature", "minTemperature", "coolingRate", "maxIterations",
     "reheatingThreshold", "reheatingFactor", "maxReheats", "hardConstraintWeight"}
shiftFields == {"startTime", "endTime", "slotDuration"}

\* the user's value of a nested field if supplied, else the default's
userOrDefault(user, default, field) ==
    IF field \in DOMAIN user THEN user[field] ELSE default[field]

\* C16: every field of the configuration mergeConfig returns, those nested in
\* softConstraintWeights, timeSlotConfig.pagi and timeSlotConfig.sore included,
\* holds the user's value if the user supplied the field and the built-in
\* default otherwise; with no user configuration the result is the defaults.
C16_MergeUserOverDefaults ==
    call.op = "mergeConfig"
    => LET user == call.args[1]
           merged == call.result
           userWeights == IF "softConstraintWeights" \in DOMAIN user
                          THEN user.softConstraintWeights ELSE Undefined
           userSlots == IF "timeSlotConfig" \in DOMAIN user
                        THEN user.timeSlotConfig ELSE Undefined
           userShift(shift) == IF shift \in DOMAIN userSlots THEN userSlots[shift]
                               ELSE Undefined
       IN  /\ DOMAIN merged = DOMAIN DefaultsAtLoad
           /\ \A f \in scalarFields : merged[f] = userOrDefault(user, DefaultsAtLoad, f)
           /\ DOMAIN merged.softConstraintWeights
                = DOMAIN DefaultsAtLoad.softConstraintWeights
           /\ \A f \in DOMAIN DefaultsAtLoad.softConstraintWeights :
                 merged.softConstraintWeights[f]
                   = userOrDefault(userWeights, DefaultsAtLoad.softConstraintWeights, f)
           /\ DOMAIN merged.timeSlotConfig = {"pagi", "sore", "days"}
           /\ \A shift \in {"pagi", "sore"} :
                 /\ DOMAIN merged.timeSlotConfig[shift] = shiftFields
                 /\ \A f \in shiftFields :
                       merged.timeSlotConfig[shift][f]
                         = userOrDefault(userShift(shift),
                                         DefaultsAtLoad.timeSlotConfig[shift], f)
           /\ merged.timeSlotConfig.days
                = userOrDefault(userSlots, DefaultsAtLoad.timeSlotConfig, "days")
           /\ merged.customTimeSlots = userOrDefault(user, DefaultsAtLoad, "customTimeSlots")
           /\ user = Undefined => merged = DefaultsAtLoad

\* C16: only the morning start is supplied; the merged morning shift starts at
\* 08:00 and keeps the end 17:00 and the duration 50
C16_Witness ==
    /\ call.op = "mergeConfig"
    /\ call.args[1] = [timeSlotConfig |-> [pagi |-> [startTime |-> <<8, 0>>]]]
    /\ call.result.timeSlotConfig.pagi
         = [startTime |-> <<8, 0>>, endTime |-> <<17, 0>>, slotDuration |-> 50]

\* C17: DEFAULT_ALGORITHM_CONFIG, its nested timeSlotConfig and
\* softConstraintWeights included, is after any sequence of mergeConfig calls
\* what it was when the module was loaded.
C17_DefaultsNeverMutated ==
    /\ DEFAULT_ALGORITHM_CONFIG = DefaultsAtLoad
    /\ DEFAULT_TIME_SLOT_CONFIG = DefaultsAtLoad.timeSlotConfig
    /\ DEFAULT_SOFT_CONSTRAINT_WEIGHTS = DefaultsAtLoad.softConstraintWeights

\* C17: a call that overrides fields at every level has returned
C17_Witness ==
    /\ call.op = "mergeConfig"
    /\ call.result # DefaultsAtLoad
    /\ call.result.maxIterations # DefaultsAtLoad.maxIterations
    /\ call.result.softConstraintWeights # DefaultsAtLoad.softConstraintWeights
    /\ call.result.timeSlotConfig # DefaultsAtLoad.timeSlotConfig

\* C15: when customTimeSlots is supplied for a shift, the slot sequence of that
\* shift is the supplied sequence, whatever timeSlotConfig comes with it; a
\* shift without it starts at the start time of timeSlotConfig if supplied and
\* at the built-in start time otherwise.
C15_CustomTimeSlotsWin ==
    call.op = "initializeTimeSlots"
    => LET user == call.args[1]
           custom == IF "customTimeSlots" \in DOMAIN user THEN user.customTimeSlots
                     ELSE Undefined
           userSlots == IF "timeSlotConfig" \in DOMAIN user THEN user.timeSlotConfig
                        ELSE Undefined
           userShift(shift) == IF shift \in DOMAIN userSlots THEN userSlots[shift]
                               ELSE Undefined
       IN  \A shift \in {"pagi", "sore"} :
              IF shift \in DOMAIN custom
              THEN call.result[shift] = custom[shift]
              ELSE call.result[shift] # <<>>
                     => call.result[shift][1].startTime
                          = userOrDefault(userShift(shift),
                                          DefaultsAtLoad.timeSlotConfig[shift],
                                          "startTime")

\* C15: a full override of the morning shift supplied together with merge
\* settings for it
C15_Witness ==
    /\ call.op = "initializeTimeSlots"
    /\ "customTimeSlots" \in DOMAIN call.args[1]
    /\ "timeSlotConfig" \in DOMAIN call.args[1]
    /\ "pagi" \in DOMAIN call.args[1].customTimeSlots
    /\ "pagi" \in DOMAIN call.args[1].timeSlotConfig
    /\ call.result.pagi = customPagi
    /\ call.result.sore # <<>>

\* C18: for every valid time t, minutesToTime(timeToMinutes(t)) = t, and for
\* every minute count m of a day, minutesToTime(m) is a valid time and
\* timeToMinutes(minutesToTime(m)) = m.
C18_TimeRoundTrip ==
    /\ call.op = "timeToMinutes"
         => /\ call.result \in MinutesOfDay
            /\ minutesToTime(call.result) = call.args[1]
    /\ call.op = "minutesToTime"
         => /\ call.result \in ValidTimes
            /\ timeToMinutes(call.result) = call.args[1]

\* C18: 545 minutes are "09:05"
C18_Witness ==
    /\ call.op = "minutesToTime"
    /\ call.args = <<545>>
    /\ call.result = <<9, 5>>

\* the prayer windows that share a minute with [from, to)
windowsHit(from, to) ==
    {w \in {<<700, 750>>, <<900, 930>>, <<1080, 1110>>} :
        \E t \in w[1]..(w[2] - 1) : from <= t /\ t < to}

RECURSIVE windowMinutes(_)
windowMinutes(W) ==
    IF W = {} THEN 0
    ELSE LET w == CHOOSE x \in W : TRUE IN (w[2] - w[1]) + windowMinutes(W \ {w})

C20_OverlapSymmetric ==
    call.op = "isTimeOverlap"
    => LET a == call.args[1]
           b == call.args[2]
       IN  /\ call.result = isTimeOverlap(b, a)
           /\ a.timeSlot.day # b.timeSlot.day => call.result = FALSE
           /\ a.timeSlot.day = b.timeSlot.day
                => (call.result
                      <=> \E t \in startOf(a)..(adjustedEndOf(a) - 1) :
                             startOf(b) <= t /\ t < adjustedEndOf(b))

\* C20: two entries of one day that overlap only through the prayer time added
\* to the earlier one
C20_Witness ==
    /\ call.op = "isTimeOverlap"
    /\ call.result = TRUE
    /\ nominalEndOf(call.args[1]) <= startOf(call.args[2])

\* C21: isValidFridayStartTime is false exactly when the hour of the start
\* time is 11, 12 or 13, whatever the minute, and true for every other hour.
C21_FridayStartExcludesThreeHours ==
    call.op = "isValidFridayStartTime"
    => LET hour == call.args[1][1]
       IN  /\ call.result \in BOOLEAN
           /\ call.result = FALSE <=> hour \in {11, 12, 13}
           /\ call.result = TRUE <=> hour \in (0..23) \ {11, 12, 13}

\* a call with an excluded hour at a minute other than 0
C21_Witness ==
    /\ call.op = "isValidFridayStartTime"
    /\ call.args[1] = <<13, 59>>
    /\ call.result = FALSE

\* the seven soft scores of entry i of a schedule, each against the entries
\* before it
softScores(schedule, i) ==
    LET before == SubSeq(schedule, 1, i - 1)
        entry == schedule[i]
    IN  <<checkPreferredTime(entry), checkPreferredRoom(entry),
          checkTransitTime(before, entry), checkCompactness(before, entry),
          checkLabRequirement(entry), checkPrayerTimeOverlap(entry).score,
          checkEveningClassPriority(entry)>>

\* C22: each of the seven soft scorers returns a value in [0, 1] for every
\* entry against the entries before it, so the fitness of every schedule is at
\* least 0, and it is 0 only when no hard check fails and every soft score is 1.
C22_SoftScoresInUnitInterval ==
    \A schedule \in heldSchedules :
        /\ \A i \in 1..Len(schedule) : \A k \in 1..7 :
               softScores(schedule, i)[k] \in 0..ScoreOne
        /\ \E fitness \in {calculateFitness(schedule).fitness} :
               /\ fitness >= 0
               /\ fitness = 0 =>
                    \A i \in 1..Len(schedule) :
                        /\ hardFailures(schedule, i) = 0
                        /\ \A k \in 1..7 : softScores(schedule, i)[k] = ScoreOne

\* the current schedule has a compactness score cut off at 0 (a gap of more
\* than four hours), a score strictly between 0 and 1, and a positive fitness
C22_Witness ==
    /\ \E i \in 1..Len(curSchedule) : softScores(curSchedule, i)[4] = 0
    /\ \E i \in 1..Len(curSchedule) : \E k \in 1..7 :
          softScores(curSchedule, i)[k] \in 1..(ScoreOne - 1)
    /\ curFitness > 0

\* C23: generateNeighbor never modifies the solution it is given: generating a
\* neighbour leaves the current and the best solution as they were, a rejected
\* neighbour leaves the current schedule and fitness as before, and the stored
\* best solution changes only when an accepted neighbour of lower fitness is
\* copied into it, never through a later move on the current solution.
C23_NeighborLeavesInputUntouched ==
    [][/\ (pc = "loop" /\ pc' = "accept")
           => /\ curSchedule' = curSchedule /\ curFitness' = curFitness
              /\ bestSchedule' = bestSchedule /\ bestFitness' = bestFitness
       /\ (pc = "accept" /\ ~(rnd < acceptProb))
           => /\ curSchedule' = curSchedule /\ curFitness' = curFitness
              /\ bestSchedule' = bestSchedule /\ bestFitness' = bestFitness
       /\ (pc = "accept" /\ rnd < acceptProb)
           => /\ curSchedule' = newSchedule /\ curFitness' = newFitness
              /\ \/ bestSchedule' = bestSchedule /\ bestFitness' = bestFitness
                 \/ /\ newFitness < bestFitness
                    /\ bestSchedule' = newSchedule /\ bestFitness' = newFitness
       /\ (pc = "loop" /\ pc' = "done")
           => /\ curSchedule' = curSchedule /\ bestSchedule' = bestSchedule]_vars

\* in a later pass the current solution has moved away from the stored best
\* one, and a neighbour that differs from the current schedule awaits the draw
C23_Witness ==
    /\ pc = "accept"
    /\ iteration >= 1
    /\ curSchedule # bestSchedule
    /\ newSchedule # curSchedule
    /\ rnd >= acceptProb

\* the fields of an entry that no move writes
fixedFields(entry) ==
    <<entry.classId, entry.prodi, entry.lecturers, entry.sks, entry.needsLab,
      entry.participants, entry.classType>>

\* the positions at which two schedules of one length differ
changedPositions(a, b) == {i \in 1..Len(a) : a[i] # b[i]}

startsInPrayerWindow(slot) ==
    LET m == slot.startTime[1] * 60 + slot.startTime[2]
    IN  (700 <= m /\ m < 750) \/ (900 <= m /\ m < 930) \/ (1080 <= m /\ m < 1110)

\* C25: in every schedule built by the initial construction and any sequence
\* of neighbour moves, no entry is on Saturday unless its program name contains
\* 'magister manajemen' in any letter case, no Friday entry starts at hour 11,
\* 12 or 13, and no entry starts inside a prayer window; the final report holds
\* no Saturday-restriction, Friday-time-restriction or prayer-time-start record.
C25_DayAndPrayerFiltersHold ==
    /\ \A schedule \in heldSchedules : \A i \in 1..Len(schedule) :
          LET entry == schedule[i]
          IN  /\ entry.timeSlot.day = "Saturday"
                    => includesMagisterManajemen(toLowerCase(entry.prodi))
              /\ entry.timeSlot.day = "Friday"
                    => entry.timeSlot.startTime[1] \notin {11, 12, 13}
              /\ ~startsInPrayerWindow(entry.timeSlot)
    /\ pc = "done" =>
          \A k \in 1..Len(report.hardConstraintViolations) :
              report.hardConstraintViolations[k].constraintType
                  \notin {"HC9: Saturday Restriction", "HC10: Friday Time Restriction",
                           "HC11: Prayer Time Start"}

\* the run has ended with a Magister Manajemen class on Saturday, on an input
\* whose morning catalogue holds a Friday slot at hour 11 and a slot that
\* starts inside a prayer window
C25_Witness ==
    /\ pc = "done"
    /\ \E i \in 1..Len(bestSchedule) : bestSchedule[i].timeSlot.day = "Saturday"
    /\ iteration >= 1
    /\ \E t \in 1..Len(TIME_SLOTS_PAGI) :
          TIME_SLOTS_PAGI[t].day = "Friday" /\ TIME_SLOTS_PAGI[t].startTime[1] = 11
    /\ \E t \in 1..Len(TIME_SLOTS_PAGI) : startsInPrayerWindow(TIME_SLOTS_PAGI[t])

\* the class requirements that get an entry, and the one entry i was built from
placedClasses ==
    {k \in 1..Len(classes) :
        /\ classes[k].Kode_Matakuliah # ""
        /\ hasLecturer(classes[k])
        /\ hasEligibleRoom(classes[k])
        /\ hasEligibleSlot(classes[k])}

classOfEntry(i) ==
    classes[CHOOSE k \in placedClasses : Cardinality({m \in placedClasses : m <= k}) = i]

\* the room of the entry is in the collection and holds its participants, and
\* the capacity check passes
roomHoldsEntry(entry) ==
    /\ \E j \in 1..Len(rooms) :
          rooms[j].Code = entry.room /\ rooms[j].Capacity >= entry.participants
    /\ checkRoomCapacity(entry).ok

C27_PrayerTimeAddedIsCurrent ==
    \A schedule \in heldSchedules : \A i \in 1..Len(schedule) :
        LET entry == schedule[i]
        IN  /\ entry.prayerTimeAdded =
                  getPrayerTimeOverlap(entry.timeSlot.startTime, entry.sks,
                                       entry.timeSlot.day)
            /\ entry.prayerTimeAdded = adjustedEndOf(entry) - nominalEndOf(entry)

\* after a pass of the loop the current schedule has an entry that overlaps a
\* prayer window where the best schedule's entry, in another slot, does not
C27_Witness ==
    /\ pc = "loop"
    /\ iteration >= 1
    /\ \E i \in 1..Len(curSchedule) :
          /\ curSchedule[i].prayerTimeAdded > 0
          /\ bestSchedule[i].prayerTimeAdded = 0
          /\ curSchedule[i].timeSlot # bestSchedule[i].timeSlot

\* C28: in every schedule built by the initial construction and any sequence
\* of neighbour moves, an evening-shift entry is in a slot of the morning or
\* the evening catalogue that starts at hour 15 or later, and any other entry
\* is in a slot of the morning catalogue; so the shift/time check never fails
\* for an evening-shift entry, and fails for a morning-shift entry only if the
\* morning catalogue itself holds a slot that starts at hour 18 or later.
C28_ShiftDecidesCatalogue ==
    \A schedule \in heldSchedules : \A i \in 1..Len(schedule) :
        LET entry == schedule[i]
        IN  IF entry.classType = "sore"
            THEN /\ entry.timeSlot.startTime[1] >= 15
                 /\ \E t \in 1..Len(TIME_SLOTS) : TIME_SLOTS[t] = entry.timeSlot
                 /\ checkClassTypeTime(entry).ok
            ELSE /\ \E t \in 1..Len(TIME_SLOTS_PAGI) : TIME_SLOTS_PAGI[t] = entry.timeSlot
                 /\ ~checkClassTypeTime(entry).ok
                      => \E t \in 1..Len(TIME_SLOTS_PAGI) :
                             TIME_SLOTS_PAGI[t].startTime[1] >= 18

\* the current schedule has an evening-shift entry in a slot of the morning
\* catalogue and a morning-shift entry that fails the shift/time check
C28_Witness ==
    /\ \E i \in 1..Len(curSchedule) :
          /\ curSchedule[i].classType = "sore"
          /\ \E t \in 1..Len(TIME_SLOTS_PAGI) : TIME_SLOTS_PAGI[t] = curSchedule[i].timeSlot
    /\ \E i \in 1..Len(curSchedule) :
          /\ curSchedule[i].classType # "sore"
          /\ ~checkClassTypeTime(curSchedule[i]).ok

\* the comparisons of entry i: <<requirement, gap>> for every lecturer of the
\* entry with a minimum-gap requirement and every entry before it, on the same
\* day, of that lecturer
transitComparisons(schedule, i) ==
    {<<lecturers[schedule[i].lecturers[j]].Transit_Time,
       startOf(schedule[i]) - adjustedEndOf(schedule[k])>> :
        <<j, k>> \in {<<j, k>> \in (1..Len(schedule[i].lecturers)) \X (1..(i - 1)) :
            /\ schedule[i].lecturers[j] \in DOMAIN lecturers
            /\ lecturers[schedule[i].lecturers[j]].Transit_Time # 0
            /\ schedule[k].timeSlot.day = schedule[i].timeSlot.day
            /\ \E a \in 1..Len(schedule[k].lecturers) :
                   schedule[k].lecturers[a] = schedule[i].lecturers[j]}}

\* max(0, gap / requirement) in fixed point
transitScore(c) == IF c[2] <= 0 THEN 0 ELSE (c[2] * ScoreOne) \div c[1]

\* C29: checkTransitTime returns the minimum, over every lecturer of the entry
\* with a minimum-gap requirement and every same-day entry of that lecturer
\* earlier in the sequence, of max(0, gap / requirement) where gap is below the
\* requirement, gap being the entry's start minus the adjusted end of the
\* earlier entry, and 1 if no comparison applies; the order is that of the
\* sequence, so an earlier entry that lies later in the day (negative gap)
\* gives the score 0 however far apart the two classes are.
C29_TransitScoreIsMinimumOverEarlierEntries ==
    \A schedule \in heldSchedules : \A i \in 1..Len(schedule) :
        LET score == checkTransitTime(SubSeq(schedule, 1, i - 1), schedule[i])
            short == {c \in transitComparisons(schedule, i) : c[2] < c[1]}
        IN  /\ short = {} => score = ScoreOne
            /\ short # {} =>
                  /\ \E c \in short : score = transitScore(c)
                  /\ \A c \in short : score <= transitScore(c)
            /\ (\E c \in transitComparisons(schedule, i) : c[2] < 0) => score = 0

\* the second entry of the current schedule starts in the morning, the first,
\* of the same lecturer, starts hours after it has ended, and the score is 0
C29_Witness ==
    /\ Len(curSchedule) >= 2
    /\ curSchedule[1].timeSlot.day = curSchedule[2].timeSlot.day
    /\ startOf(curSchedule[1]) >= adjustedEndOf(curSchedule[2]) + 240
    /\ transitComparisons(curSchedule, 2) # {}
    /\ checkTransitTime(SubSeq(curSchedule, 1, 1), curSchedule[2]) = 0

\* the entries (positions) whose nominal interval intersects a prayer window
overlappingPrayer(schedule) ==
    {i \in 1..Len(schedule) : adjustedEndOf(schedule[i]) > nominalEndOf(schedule[i])}

\* C30: the soft-violation list of the final report holds exactly one 'SC5:
\* Prayer Time Overlap' record, in schedule order, for each entry of the
\* returned schedule whose nominal interval intersects a prayer window, and
\* nothing else: no other soft scorer adds a record however low its score, so
\* totalSoftViolations is the number of entries with prayerTimeAdded > 0.
C30_SoftRecordsArePrayerOverlapsOnly ==
    pc = "done" =>
        LET soft == report.softConstraintViolations
            hit == overlappingPrayer(bestSchedule)
        IN  /\ Len(soft) = Cardinality(hit)
            /\ \A k \in 1..Len(soft) :
                  /\ soft[k].constraintType = "SC5: Prayer Time Overlap"
                  /\ soft[k].severity = "soft"
                  /\ \E i \in hit :
                        /\ Cardinality({m \in hit : m <= i}) = k
                        /\ soft[k].classId = bestSchedule[i].classId
            /\ \A k \in 1..Len(report.hardConstraintViolations) :
                  report.hardConstraintViolations[k].severity = "hard"
            /\ report.summary.totalSoftViolations =
                  Cardinality({i \in 1..Len(bestSchedule) :
                                  bestSchedule[i].prayerTimeAdded > 0})

\* the returned schedule has an entry that overlaps a prayer window and an
\* entry with a soft score other than SC5 below 1; the report has a record
C30_Witness ==
    /\ pc = "done"
    /\ overlappingPrayer(bestSchedule) # {}
    /\ \E i \in 1..Len(bestSchedule) : \E k \in {1, 2, 3, 4, 5, 7} :
          softScores(bestSchedule, i)[k] < ScoreOne
    /\ Len(report.softConstraintViolations) >= 1

====
